---- MODULE Spec2Model ----
(***************************************************************************)
(* Provider-client authentication and registry subsystem of astral_ai:     *)
(* ProviderClientRegistry (providers/_client_registry.py), the provider    *)
(* client constructor and its auth resolution (providers/_base_client.py)  *)
(* and the DeepSeek provider client (providers/deepseek/_client.py).       *)
(***************************************************************************)
EXTENDS Integers, Sequences, FiniteSets, TLC

VARIABLES
    _client_registry,   \* ProviderClientRegistry._client_registry: dict key -> client (insertion ordered)
    _lock,              \* ProviderClientRegistry._lock: the thread that holds the RLock, 0 when free
    _client_cache,      \* BaseProviderClient._client_cache: dict provider-client class -> native handle
    heap,               \* the provider-client instances constructed so far; a reference is an index
    handles,            \* number of native handles the auth strategies have produced
    invocations,        \* number of auth strategy invocations made by the concurrent identical calls
    pc,                 \* position of every thread inside its current call
    local,              \* call frame of every thread: arguments and locals of its current call
    done,               \* the frame of the call that completed last, with its outcome
    calls,              \* number of calls started
    ghost,              \* per registry key: what happened to the key since get_client last returned it
    keyIn,              \* arguments of a _generate_registry_key evaluation
    keyOut,             \* its result
    same,               \* the arguments shared by concurrent get_client calls, None when they are free
    _adapter_cache,     \* AdapterRegistry._adapter_cache: dict provider -> adapter (insertion ordered)
    _adapter_lock,      \* AdapterRegistry._lock: the thread that holds the RLock, 0 when free
    adapters,           \* number of adapter instances constructed so far; a reference is an index
    adapterGhost,       \* per provider: what happened to its adapter since get_adapter last returned it
    snapshot,           \* the mapping a caller got from get_all_clients or get_all_adapters and kept
    kwargs,             \* the fields a caller has set explicitly on a request, name -> value
    request,            \* the AstralCompletionRequest instance built from them, None before
    provider_dict,      \* what to_provider_dict() returned for it, None before
    auth_tables,        \* per client class: its _auth_strategies, names in registration order
    mappings_client_registry,  \* _client_registry of the ProviderClientRegistry of _mappings.py
    mappings_lock       \* its _lock: the thread that holds the RLock, 0 when free

vars == <<_client_registry, _lock, _client_cache, heap, handles, invocations, pc, local, done, calls, ghost,
          keyIn, keyOut, same, _adapter_cache, _adapter_lock, adapters, adapterGhost,
          snapshot, kwargs, request, provider_dict, auth_tables,
          mappings_client_registry, mappings_lock>>

\* --------------------------------------------------------------------------
\* Bounds
\* --------------------------------------------------------------------------
NThreads == 2
MaxClients == 2
MaxCalls == 4
MaxDirect == 2
MaxAdapterCalls == 4
MaxOps == 3
MaxAssign == 1
HashMod == 65536

Threads == 1..NThreads

\* --------------------------------------------------------------------------
\* Python values
\* --------------------------------------------------------------------------
\* Optional[T]: None is the empty tuple, a value v is <<v>>.
None == <<>>
Some(v) == <<v>>

\* Python truthiness of an Optional[str]: None and "" are falsy.
Truthy(s) == s # None /\ s[1] # ""

\* --------------------------------------------------------------------------
\* dict (insertion ordered): a sequence of <<key, value>> pairs, keys distinct
\* --------------------------------------------------------------------------
DictKeys(d) == {d[i][1] : i \in 1..Len(d)}
DictHas(d, k) == k \in DictKeys(d)
DictGet(d, k) == d[CHOOSE i \in 1..Len(d) : d[i][1] = k][2]
\* an existing entry is kept (setdefault)
DictSet_NoReplace(d, k, v) == IF DictHas(d, k) THEN d ELSE Append(d, <<k, v>>)

DictSet(d, k, v) ==
    IF DictHas(d, k)
    THEN [i \in 1..Len(d) |-> IF d[i][1] = k THEN <<k, v>> ELSE d[i]]
    ELSE Append(d, <<k, v>>)
\* the entry is left in place
DictDel_Kept(d, k) == d

\* every entry is removed
DictDel_All(d, k) == <<>>

\* the oldest entry is deleted, whatever the key
DictDel_Oldest(d, k) == Tail(d)

\* del d[k]
DictDel(d, k) == SelectSeq(d, LAMBDA e : e[1] # k)

\* --------------------------------------------------------------------------
\* Providers, client classes and their auth strategy tables
\* --------------------------------------------------------------------------
\* _PROVIDER_CLIENT_MAP: provider name -> client class (a class is named by its provider).
_PROVIDER_CLIENT_MAP == {"openai", "anthropic", "deepseek"}

\* The table of DeepSeekProviderClient: its one @auth_method.
DeepSeekStrategies == <<"api_key_with_base_url">>

\* The tables of the OpenAI and Anthropic client classes: a provider type with
\* several registered strategies and one with a single strategy.
OpenAIStrategies == <<"api_key", "api_key_with_base_url">>

AnthropicStrategies == <<"api_key">>

\* _PROVIDER_ADAPTER_MAP: provider name -> adapter class
_PROVIDER_ADAPTER_MAP == {"openai", "anthropic"}

\* cls._auth_strategies: ordered mapping name -> strategy, in registration order.
_auth_strategies(cls) ==
    CASE cls = "deepseek" -> DeepSeekStrategies
      [] cls = "openai" -> OpenAIStrategies
      [] cls = "anthropic" -> AnthropicStrategies
      [] OTHER -> <<>>

\* What one invocation strategy(self, config, env) can do: return a handle
\* ("ok"), return an empty (falsy) value ("empty"), or raise ("E1", "E2").
\* DeepSeek's strategy raises from _validate_credentials (E1) or from the
\* OpenAI constructor (E2), or returns the OpenAI client, which is truthy.
DeepSeekOutcomes == {"ok", "E1", "E2"}

\* A strategy of another class returns a handle, returns nothing, or raises.
OtherOutcomes == {"ok", "empty", "E1"}

StrategyOutcomes(cls, name) ==
    IF cls = "deepseek" THEN DeepSeekOutcomes ELSE OtherOutcomes

\* DeepSeekProviderClient.__init__(self, config) takes no async_client keyword.
DeepSeekAcceptsAsyncKw == FALSE

\* The OpenAI and Anthropic constructors take the keyword that get_client passes
\* and hand the config to BaseProviderClient.__init__.
OtherAcceptsAsyncKw == TRUE

\* Does client_class(config, async_client=async_client) bind its arguments?
AcceptsAsyncKw(cls) ==
    IF cls = "deepseek" THEN DeepSeekAcceptsAsyncKw ELSE OtherAcceptsAsyncKw

\* --------------------------------------------------------------------------
\* Provider config
\* --------------------------------------------------------------------------
\* One provider's section: auth_method is Optional[name], cache_client is Optional[bool].
Section(am, cc) == [auth_method |-> am, cache_client |-> cc]

SecDefault == Section(None, None)
SecPinned == Section(Some("api_key"), None)
SecBogus == Section(Some("oauth"), None)
SecNoCache == Section(None, Some(FALSE))
SecCache == Section(None, Some(TRUE))

\* dict.get(key, default) on a provider-keyed config
ConfigGet(cfg, k, default) == IF DictHas(cfg, k) THEN DictGet(cfg, k) ELSE default

\* --------------------------------------------------------------------------
\* _generate_registry_key
\* --------------------------------------------------------------------------
\* Rank of a key in string order (json.dumps(..., sort_keys=True)).
KeyRank(k) ==
    CASE k = "anthropic" -> 1 [] k = "deepseek" -> 2 [] k = "openai" -> 3 [] OTHER -> 4

NameCode(o) ==
    IF o = None THEN 0
    ELSE CASE o[1] = "api_key" -> 1 [] o[1] = "api_key_with_base_url" -> 2 [] OTHER -> 3

FlagCode(o) == IF o = None THEN 0 ELSE IF o[1] THEN 2 ELSE 1

\* v.model_dump() of a section, as the tokens of its dump
model_dump(sec) == <<NameCode(sec.auth_method), 10 + FlagCode(sec.cache_client)>>

RECURSIVE SortedInsert(_, _)
SortedInsert(s, e) ==
    IF s = <<>> THEN <<e>>
    ELSE IF KeyRank(e[1]) < KeyRank(Head(s)[1]) THEN <<e>> \o s
    ELSE <<Head(s)>> \o SortedInsert(Tail(s), e)

\* the items are dumped in insertion order
SortKeys_Unsorted(d) == d

RECURSIVE SortKeys(_)
SortKeys(d) == IF d = <<>> THEN <<>> ELSE SortedInsert(SortKeys(Tail(d)), Head(d))

RECURSIVE DumpItems(_)
DumpItems(d) ==
    IF d = <<>> THEN <<>>
    ELSE <<20 + KeyRank(Head(d)[1])>> \o model_dump(Head(d)[2]) \o DumpItems(Tail(d))

\* json.dumps({k: v.model_dump() for k, v in config.items()}, sort_keys=True), as tokens
json_dumps(cfg) == <<30>> \o DumpItems(SortKeys(cfg)) \o <<31>>

\* hash(config_str): a signed hash of the string, narrowed to HashMod values
RECURSIVE HashAcc(_, _)
HashAcc(s, h) == IF s = <<>> THEN h ELSE HashAcc(Tail(s), (h * 33 + Head(s)) % HashMod)

hash(s) ==
    LET h == HashAcc(s, 5381)
    IN IF 2 * h >= HashMod THEN h - HashMod ELSE h

\* the variant suffix is left out
_generate_registry_key_NoSuffix(provider_name, config, client_key, async_client) ==
    IF Truthy(client_key) THEN client_key[1]
    ELSE IF config # None
         THEN provider_name \o "_" \o ToString(hash(json_dumps(config[1])))
         ELSE provider_name

\* the config hash takes precedence over the explicit client_key
_generate_registry_key_ConfigFirst(provider_name, config, client_key, async_client) ==
    LET base_key ==
            IF config # None
            THEN provider_name \o "_" \o ToString(hash(json_dumps(config[1])))
            ELSE IF Truthy(client_key) THEN client_key[1]
                 ELSE provider_name
    IN IF async_client THEN base_key \o ".async" ELSE base_key

_generate_registry_key(provider_name, config, client_key, async_client) ==
    LET base_key ==
            IF Truthy(client_key) THEN client_key[1]
            ELSE IF config # None
                 THEN provider_name \o "_" \o ToString(hash(json_dumps(config[1])))
                 ELSE provider_name
    IN IF async_client THEN base_key \o ".async" ELSE base_key

\* new_client without a client_key falls back to the provider's default key
GetClientKey_NoCheck(provider_name, astral_client, async_client) ==
    IF astral_client = None
    THEN Some(_generate_registry_key(provider_name, None, None, async_client))
    ELSE Some(_generate_registry_key(provider_name,
                  IF astral_client[1].new_client THEN None ELSE astral_client[1].client_config,
                  astral_client[1].client_key, async_client))

\* Lines 122-138: the key of the call, None when the call raises ValueError.
GetClientKey(provider_name, astral_client, async_client) ==
    IF astral_client = None
    THEN Some(_generate_registry_key(provider_name, None, None, async_client))
    ELSE IF astral_client[1].new_client
         THEN IF Truthy(astral_client[1].client_key)
              THEN Some(_generate_registry_key(provider_name, None,
                                               astral_client[1].client_key, async_client))
              ELSE None
         ELSE Some(_generate_registry_key(provider_name, astral_client[1].client_config,
                                          astral_client[1].client_key, async_client))

GetClientKeyOf(in) == GetClientKey(in[1], in[2], in[3])

\* --------------------------------------------------------------------------
\* Inputs of the calls
\* --------------------------------------------------------------------------
\* AstralClientParams(new_client, client_key, client_config)
AstralClientParams(nc, ck, cc) == [new_client |-> nc, client_key |-> ck, client_config |-> cc]

CfgPinned == Some(<< <<"openai", SecPinned>> >>)
CfgNoCache == Some(<< <<"openai", SecNoCache>> >>)

\* get_client(provider_name, astral_client, async_client)
GetClientInputs ==
    {<<"openai", None, FALSE>>,
     <<"openai", None, TRUE>>,
     <<"cohere", None, FALSE>>,
     <<"deepseek", None, FALSE>>,
     <<"openai", Some(AstralClientParams(TRUE, None, None)), FALSE>>,
     <<"openai", Some(AstralClientParams(TRUE, Some("k1"), None)), FALSE>>,
     <<"anthropic", Some(AstralClientParams(FALSE, Some("k1"), None)), FALSE>>,
     <<"openai", Some(AstralClientParams(FALSE, None, CfgNoCache)), FALSE>>,
     <<"openai", Some(AstralClientParams(FALSE, None, CfgPinned)), FALSE>>}

\* (provider_name, client_config, client_key, async_client) of register_client and
\* unregister_client
RegistryKeyInputs ==
    {<<"openai", None, None, FALSE>>,
     <<"openai", None, Some("k1"), FALSE>>,
     <<"openai", CfgNoCache, None, FALSE>>}

\* What load_full_config() can read from astral.yaml: no file, or a provider-keyed config.
YamlInputs == {None, Some(<< <<"openai", SecBogus>> >>)}

\* configs handed to a directly constructed provider client
DirectConfigInputs ==
    {None, Some(<<>>), CfgPinned, CfgNoCache,
     Some(<< <<"openai", SecBogus>>, <<"anthropic", SecCache>> >>),
     Some(<< <<"deepseek", Section(Some("api_key_with_base_url"), None)>>,
             <<"anthropic", SecPinned>> >>)}

\* arguments of _generate_registry_key
KeyProviderInputs == {"openai", "anthropic", "deepseek", "cohere"}
KeyClientKeyInputs == {None, Some(""), Some("k1"), Some("openai"), Some("openai.async")}
KeyConfigInputs ==
    DirectConfigInputs \cup
    {Some(<< <<"anthropic", SecCache>>, <<"openai", SecBogus>> >>)}

\* get_client_by_index(index), get_adapter_by_index(index)
IndexInputs == {-1, 0, 1, 2}

\* get_client_by_name(name)
NameInputs == {"openai", "k1", "cohere"}

\* get_client calls of the callers that use both registries
RegistriesClientInputs ==
    {<<"openai", None, FALSE>>,
     <<"cohere", None, FALSE>>,
     <<"cohere", Some(AstralClientParams(FALSE, Some("k1"), None)), FALSE>>}

\* get_client calls that threads issue while other calls are in progress
ThreadsClientInputs ==
    {<<"openai", None, FALSE>>,
     <<"cohere", None, FALSE>>,
     <<"openai", Some(AstralClientParams(TRUE, None, None)), FALSE>>,
     <<"openai", Some(AstralClientParams(TRUE, Some(""), None)), FALSE>>,
     <<"openai", Some(AstralClientParams(TRUE, Some("k1"), None)), FALSE>>}

\* get_adapter(model_provider), register_adapter and unregister_adapter
AdapterProviderInputs == {"openai", "anthropic", "deepseek", "cohere"}

\* the keys the registry calls can derive
KeySpace ==
    {GetClientKeyOf(in)[1] : in \in {x \in GetClientInputs : GetClientKeyOf(x) # None}}
    \cup {_generate_registry_key(in[1], in[2], in[3], in[4]) : in \in RegistryKeyInputs}

\* --------------------------------------------------------------------------
\* Exceptions
\* --------------------------------------------------------------------------
ValueError == [type |-> "ValueError"]
IndexError == [type |-> "IndexError"]
KeyError(k) == [type |-> "KeyError", key |-> k]
TypeError == [type |-> "TypeError"]
\* the error does not carry the provider
ProviderNotSupportedError_Unnamed(p) == [type |-> "ProviderNotSupportedError", provider_name |-> ""]

ProviderNotSupportedError(p) == [type |-> "ProviderNotSupportedError", provider_name |-> p]
\* the exception object a strategy raised: which strategy, which failure
StrategyError(name, e) == [type |-> e, strategy |-> name]
AstralUnknownAuthMethodError(n, p, s) ==
    [type |-> "AstralUnknownAuthMethodError", auth_method_name |-> n,
     provider_name |-> p, supported_methods |-> s]
MultipleAstralAuthenticationErrors(p, errs) ==
    [type |-> "MultipleAstralAuthenticationErrors", provider_name |-> p,
     auth_method_name |-> "multiple_failed", errors |-> errs]

\* --------------------------------------------------------------------------
\* Call frames
\* --------------------------------------------------------------------------
Frame0 ==
    [op |-> "none", provider_name |-> "", new_client |-> FALSE,
     key |-> "", cls |-> "", config |-> None, _config |-> SecDefault,
     cache_hit |-> FALSE, auth_ran |-> FALSE,
     methods_to_try |-> <<>>, i |-> 1, errors |-> <<>>, invoked |-> <<>>,
     handle |-> None, hit |-> FALSE, result |-> 0, raised |-> None, index |-> 0,
     client_key |-> None, yaml |-> None]

GhostRec(last, removed, registered) ==
    [last |-> last, removed |-> removed, registered |-> registered]

\* --------------------------------------------------------------------------
\* Initial state
\* --------------------------------------------------------------------------
KeyIn0 == [provider_name |-> "", config |-> None, client_key |-> None, async_client |-> FALSE]

InitState ==
    /\ _client_registry = <<>>
    /\ _lock = 0
    /\ _client_cache = <<>>
    /\ heap = <<>>
    /\ handles = 0
    /\ invocations = 0
    /\ pc = [t \in Threads |-> "idle"]
    /\ local = [t \in Threads |-> Frame0]
    /\ done = Frame0
    /\ calls = 0
    /\ ghost = [k \in KeySpace |-> GhostRec(0, FALSE, FALSE)]
    /\ _adapter_cache = <<>>
    /\ _adapter_lock = 0
    /\ adapters = 0
    /\ adapterGhost = [p \in AdapterProviderInputs |-> GhostRec(0, FALSE, FALSE)]
    /\ snapshot = None
    /\ auth_tables = [cls \in _PROVIDER_CLIENT_MAP |-> _auth_strategies(cls)]
    /\ mappings_client_registry = <<>>
    /\ mappings_lock = 0

\* no request has been built
NoRequest ==
    /\ kwargs = <<>>
    /\ request = None
    /\ provider_dict = None

Init ==
    /\ InitState
    /\ NoRequest
    /\ keyIn = KeyIn0
    /\ keyOut = None
    /\ same = None

keyVars == <<keyIn, keyOut, same>>

requestVars == <<kwargs, request, provider_dict>>

mappingsVars == <<mappings_client_registry, mappings_lock>>

adapterVars == <<_adapter_cache, _adapter_lock, adapters, adapterGhost, snapshot>>

clientVars == <<_client_registry, _lock, _client_cache, heap, handles, invocations, ghost>>

\* --------------------------------------------------------------------------
\* The with cls._lock: block
\* --------------------------------------------------------------------------
\* a lock that excludes nobody
CanAcquire_Unlocked(t) == TRUE

\* RLock.acquire() returns when the lock is free or already held by the caller.
CanAcquire(t) == _lock = 0 \/ _lock = t

\* the error is swallowed: the call returns nothing
Raise_Swallowed(t, frame, e) ==
    /\ done' = frame
    /\ local' = [local EXCEPT ![t] = Frame0]
    /\ pc' = [pc EXCEPT ![t] = "idle"]

\* the call of thread t ends by raising e
Raise(t, frame, e) ==
    /\ done' = [frame EXCEPT !.raised = Some(e)]
    /\ local' = [local EXCEPT ![t] = Frame0]
    /\ pc' = [pc EXCEPT ![t] = "idle"]

\* the call of thread t ends by returning client c
Return(t, frame, c) ==
    /\ done' = [frame EXCEPT !.result = c]
    /\ local' = [local EXCEPT ![t] = Frame0]
    /\ pc' = [pc EXCEPT ![t] = "idle"]

\* --------------------------------------------------------------------------
\* ProviderClientRegistry.get_client
\* --------------------------------------------------------------------------
\* Lines 122-138: derive the key, or raise ValueError, before the lock is taken.
GetClientEnter(t, provider_name, astral_client, async_client) ==
    LET key == GetClientKey(provider_name, astral_client, async_client)
        frame == [Frame0 EXCEPT
                     !.op = "get_client",
                     !.provider_name = provider_name,
                     !.new_client = astral_client # None /\ astral_client[1].new_client,
                     !.client_key = IF astral_client = None THEN None
                                    ELSE astral_client[1].client_key,
                     !.config = IF astral_client = None THEN None
                                ELSE astral_client[1].client_config]
    IN /\ calls' = calls + 1
       /\ IF key = None
          THEN Raise(t, frame, ValueError)
          ELSE /\ local' = [local EXCEPT ![t] = [frame EXCEPT !.key = key[1]]]
               /\ pc' = [pc EXCEPT ![t] = "gc_lock"]
               /\ UNCHANGED done
       /\ UNCHANGED <<_client_registry, _lock, _client_cache, heap, handles, invocations, ghost, keyVars, requestVars, mappingsVars, auth_tables, adapterVars>>

\* The callers of this specification issue get_client one call at a time; the
\* other registry operations run between its prologue and its locked part.
GetClientCall(t) ==
    /\ \A u \in Threads : pc[u] = "idle"
    /\ calls < MaxCalls
    /\ same = None
    /\ \E in \in GetClientInputs : GetClientEnter(t, in[1], in[2], in[3])

\* the registry is never consulted
CacheMiss_Always(key) == TRUE

\* Line 141: if key not in cls._client_registry
CacheMiss(key) == ~DictHas(_client_registry, key)

\* Lines 140-141, 149: the key is in the registry; return the stored client.
GetClientCached(t) ==
    /\ pc[t] = "gc_lock"
    /\ CanAcquire(t)
    /\ ~CacheMiss(local[t].key)
    /\ LET c == DictGet(_client_registry, local[t].key)
       IN /\ Return(t, [local[t] EXCEPT !.hit = TRUE], c)
          /\ ghost' = [ghost EXCEPT ![local[t].key] = GhostRec(c, FALSE, FALSE)]
    /\ _lock' = 0
    /\ UNCHANGED <<_client_registry, _client_cache, heap, handles, invocations, calls, keyVars, requestVars, mappingsVars, auth_tables, adapterVars>>

\* Lines 142-144: a miss for a provider without a client class.
GetClientNotSupported(t) ==
    /\ pc[t] = "gc_lock"
    /\ CanAcquire(t)
    /\ CacheMiss(local[t].key)
    /\ local[t].provider_name \notin _PROVIDER_CLIENT_MAP
    /\ Raise(t, local[t], ProviderNotSupportedError(local[t].provider_name))
    /\ _lock' = 0
    /\ UNCHANGED <<_client_registry, _client_cache, heap, handles, invocations, calls, ghost, keyVars, requestVars, mappingsVars, auth_tables, adapterVars>>

\* Lines 145-148: a miss; call client_class(client_config, async_client=async_client)
\* with the lock held.  A constructor without the keyword raises TypeError.
GetClientConstruct(t) ==
    /\ pc[t] = "gc_lock"
    /\ CanAcquire(t)
    /\ CacheMiss(local[t].key)
    /\ local[t].provider_name \in _PROVIDER_CLIENT_MAP
    /\ LET client_class == local[t].provider_name
           frame == [local[t] EXCEPT !.cls = client_class]
       IN IF AcceptsAsyncKw(client_class)
          THEN /\ Len(heap) < MaxClients
               /\ local' = [local EXCEPT ![t] = frame]
               /\ pc' = [pc EXCEPT ![t] = "init"]
               /\ _lock' = t
               /\ UNCHANGED done
          ELSE /\ Raise(t, frame, TypeError)
               /\ _lock' = 0
    /\ UNCHANGED <<_client_registry, _client_cache, heap, handles, invocations, calls, ghost, keyVars, requestVars, mappingsVars, auth_tables, adapterVars>>

\* --------------------------------------------------------------------------
\* BaseProviderClient.__init__ and _get_or_authenticate_client
\* --------------------------------------------------------------------------
\* an exception that leaves __init__ leaves the registry lock held
CtorRaise_KeepsLock(t, frame, e) ==
    /\ Raise(t, frame, e)
    /\ _lock' = _lock
    /\ mappings_lock' = mappings_lock

\* An exception leaves __init__; inside get_client it also leaves the with block.
CtorRaise(t, frame, e) ==
    /\ Raise(t, frame, e)
    /\ _lock' = IF local[t].op = "get_client" THEN 0 ELSE _lock
    /\ mappings_lock' = IF local[t].op = "mappings_get_client" THEN 0 ELSE mappings_lock

\* Direct construction cls(config), outside any registry.
DirectCall(t) ==
    /\ pc[t] = "idle"
    /\ calls < MaxDirect
    /\ Len(heap) < MaxClients
    /\ calls' = calls + 1
    /\ \E cls \in _PROVIDER_CLIENT_MAP, config \in DirectConfigInputs :
          local' = [local EXCEPT ![t] = [Frame0 EXCEPT !.op = "direct", !.provider_name = cls,
                                                       !.cls = cls, !.config = config]]
    /\ pc' = [pc EXCEPT ![t] = "init"]
    /\ UNCHANGED <<_client_registry, _lock, _client_cache, heap, handles, invocations, done, ghost, keyVars, requestVars, mappingsVars, auth_tables, adapterVars>>

\* the explicit section is laid over the section of the external source
ProviderConfigOf_Merged(config, yaml, cls) ==
    LET explicit == IF config # None THEN ConfigGet(config[1], cls, SecDefault) ELSE SecDefault
        external == IF yaml # None THEN ConfigGet(yaml[1], cls, SecDefault) ELSE SecDefault
    IN Section(IF explicit.auth_method # None THEN explicit.auth_method ELSE external.auth_method,
               IF explicit.cache_client # None THEN explicit.cache_client
               ELSE external.cache_client)

\* get_provider_config over config or load_full_config() or {}
ProviderConfigOf(config, yaml, cls) ==
    LET full == IF config # None /\ config[1] # <<>> THEN config[1]
                ELSE IF yaml # None /\ yaml[1] # <<>> THEN yaml[1]
                ELSE <<>>
    IN ConfigGet(full, cls, SecDefault)

\* the cache_client flag of the config is ignored
CacheClientOf_Ignored(sec) == TRUE

\* the flag defaults to False
CacheClientOf_DefaultFalse(sec) == IF sec.cache_client = None THEN FALSE ELSE sec.cache_client[1]

\* self._config.get("cache_client", True)
CacheClientOf(sec) == IF sec.cache_client = None THEN TRUE ELSE sec.cache_client[1]

\* Lines 169-178: resolve the config, then consult the class-scoped handle cache.
CtorInit(t) ==
    /\ pc[t] = "init"
    /\ \E yaml \in YamlInputs :
          LET _config == ProviderConfigOf(local[t].config, yaml, local[t].cls)
              cache_client == CacheClientOf(_config)
              frame == [local[t] EXCEPT !._config = _config, !.yaml = yaml]
          IN IF cache_client /\ DictHas(_client_cache, local[t].cls)
             THEN /\ local' = [local EXCEPT ![t] = [frame EXCEPT
                                   !.cache_hit = TRUE,
                                   !.handle = Some(DictGet(_client_cache, local[t].cls))]]
                  /\ pc' = [pc EXCEPT ![t] = "store"]
             ELSE /\ local' = [local EXCEPT ![t] = [frame EXCEPT !.auth_ran = TRUE]]
                  /\ pc' = [pc EXCEPT ![t] = "auth_start"]
    /\ UNCHANGED <<_client_registry, _lock, _client_cache, heap, handles, invocations, done, calls, ghost,
                   keyVars, requestVars, mappingsVars, auth_tables, adapterVars>>

\* @auth_error_handler around _get_or_authenticate_client: the exception that
\* leaves the method is the one raised inside it.
auth_error_handler(e) == e

\* the pinned name is not looked up
KnownMethod_Unchecked(auth_method_name, table) == TRUE

\* Line 243: auth_method_name in self._auth_strategies
KnownMethod(auth_method_name, table) ==
    auth_method_name \in {table[j] : j \in 1..Len(table)}

\* the handle a strategy returned is dropped
HandleProduced_Never(o) == FALSE

\* any value a strategy returns without raising counts as a handle
HandleProduced_NotNone(o) == o \in {"ok", "empty"}

\* Line 264: if client
HandleProduced(o) == o = "ok"

\* the failure is put in front of the earlier ones
RecordError_Front(errors, name, e) == <<<<name, e>>>> \o errors

\* Line 269: errors.append((name, e))
RecordError(errors, name, e) == Append(errors, <<name, e>>)

\* a single candidate is treated like a fallback list
SingleMethod_Never(methods_to_try) == FALSE

\* Line 271: if len(methods_to_try) == 1
SingleMethod(methods_to_try) == Len(methods_to_try) = 1

\* the table is walked from its last strategy to its first
MethodsToTry_Reversed(auth_method_config, table) ==
    IF auth_method_config # None
    THEN <<auth_method_config[1]>>
    ELSE [j \in 1..Len(table) |-> table[Len(table) + 1 - j]]

\* the pinned strategy comes first and the others stay as fallbacks
MethodsToTry_PinnedFirst(auth_method_config, table) ==
    IF auth_method_config # None
    THEN <<auth_method_config[1]>> \o SelectSeq(table, LAMBDA n : n # auth_method_config[1])
    ELSE table

\* Lines 253 and 256: the pinned strategy alone, or all of the table in its order.
MethodsToTry(auth_method_config, table) ==
    IF auth_method_config # None
    THEN <<auth_method_config[1]>>
    ELSE table

\* Lines 234-257: choose the methods to try; an unknown pinned name is an error.
AuthStart(t) ==
    /\ pc[t] = "auth_start"
    /\ LET auth_method_config == local[t]._config.auth_method
           table == auth_tables[local[t].cls]
       IN IF auth_method_config # None /\ ~KnownMethod(auth_method_config[1], table)
          THEN CtorRaise(t, local[t],
                   auth_error_handler(
                       AstralUnknownAuthMethodError(auth_method_config[1],
                                                    local[t].cls, table)))
          ELSE /\ local' = [local EXCEPT ![t].methods_to_try =
                                 MethodsToTry(auth_method_config, table)]
               /\ pc' = [pc EXCEPT ![t] = "auth"]
               /\ UNCHANGED <<_lock, mappings_lock, done>>
    /\ UNCHANGED <<_client_registry, _client_cache, heap, handles, invocations, calls, ghost, keyVars, requestVars, mappings_client_registry, auth_tables, adapterVars>>

\* a strategy that raised is taken out of the table
TableAfterAttempt_DropFailed(table, name, o) ==
    IF o \in {"E1", "E2"} THEN SelectSeq(table, LAMBDA n : n # name) ELSE table

\* Lines 260-273, and the strategy bodies (deepseek/_client.py lines 99-130):
\* cls._auth_strategies is only read, whatever the strategy does.
TableAfterAttempt(table, name, o) == table

\* Lines 260-273 and 180-183: one iteration of the loop over methods_to_try.
AuthInvoke(t) ==
    /\ pc[t] = "auth"
    /\ local[t].i <= Len(local[t].methods_to_try)
    /\ invocations' = IF same # None THEN invocations + 1 ELSE invocations
    /\ LET name == local[t].methods_to_try[local[t].i]
       IN \E o \in StrategyOutcomes(local[t].cls, name) :
            /\ auth_tables' = [auth_tables EXCEPT ![local[t].cls] = TableAfterAttempt(@, name, o)]
            /\ LET frame == [local[t] EXCEPT !.invoked = Append(@, <<name, o>>)]
               IN CASE HandleProduced(o) ->
                         LET client == [hid |-> handles + 1, by |-> name,
                                        cfg |-> local[t]._config]
                         IN /\ handles' = handles + 1
                            /\ local' = [local EXCEPT ![t] = [frame EXCEPT !.handle = Some(client)]]
                            /\ pc' = [pc EXCEPT ![t] = "store"]
                            /\ _client_cache' =
                                  IF CacheClientOf(local[t]._config)
                                  THEN DictSet(_client_cache, local[t].cls, client)
                                  ELSE _client_cache
                            /\ UNCHANGED <<_lock, mappings_lock, done>>
                    [] ~HandleProduced(o) /\ o \in {"ok", "empty"} ->
                         /\ local' = [local EXCEPT ![t] = [frame EXCEPT !.i = @ + 1]]
                         /\ UNCHANGED <<pc, handles, _client_cache, _lock, mappings_lock, done>>
                    [] OTHER ->
                         LET e == StrategyError(name, o)
                             failed == [frame EXCEPT !.errors = RecordError(@, name, e)]
                         IN IF SingleMethod(local[t].methods_to_try)
                            THEN /\ CtorRaise(t, failed, auth_error_handler(e))
                                 /\ UNCHANGED <<handles, _client_cache>>
                            ELSE /\ local' = [local EXCEPT ![t] = [failed EXCEPT !.i = @ + 1]]
                                 /\ UNCHANGED <<pc, handles, _client_cache, _lock, mappings_lock, done>>
    /\ UNCHANGED <<_client_registry, heap, calls, ghost, keyVars, requestVars, mappings_client_registry, adapterVars>>

\* Lines 276-282: the loop ended without a handle.
AuthExhausted(t) ==
    /\ pc[t] = "auth"
    /\ local[t].i > Len(local[t].methods_to_try)
    /\ CtorRaise(t, local[t],
                 auth_error_handler(
                     MultipleAstralAuthenticationErrors(local[t].cls, local[t].errors)))
    /\ UNCHANGED <<_client_registry, _client_cache, heap, handles, invocations, calls, ghost, keyVars, requestVars, mappings_client_registry, auth_tables, adapterVars>>

\* The constructor returned: the instance exists.  get_client stores it under
\* the key and returns it (lines 145, 149).
CtorDone(t) ==
    /\ pc[t] = "store"
    /\ LET c == Len(heap) + 1
           instance == [cls |-> local[t].cls, client |-> local[t].handle[1],
                        _config |-> local[t]._config]
       IN /\ heap' = Append(heap, instance)
          /\ Return(t, local[t], c)
          /\ IF local[t].op = "get_client"
             THEN /\ _client_registry' = DictSet(_client_registry, local[t].key, c)
                  /\ ghost' = [ghost EXCEPT ![local[t].key] = GhostRec(c, FALSE, FALSE)]
                  /\ _lock' = 0
             ELSE UNCHANGED <<_client_registry, ghost, _lock>>
          /\ IF local[t].op = "mappings_get_client"
             THEN /\ mappings_client_registry' =
                        DictSet(mappings_client_registry, local[t].key, c)
                  /\ mappings_lock' = 0
             ELSE UNCHANGED <<mappings_client_registry, mappings_lock>>
    /\ UNCHANGED <<_client_cache, handles, invocations, calls, keyVars, requestVars, auth_tables, adapterVars>>

\* --------------------------------------------------------------------------
\* register_client, unregister_client, clear_cache
\* --------------------------------------------------------------------------
\* Lines 170-172
RegisterClient(t) ==
    /\ pc[t] = "idle"
    /\ calls < MaxCalls
    /\ CanAcquire(t)
    /\ calls' = calls + 1
    /\ \E in \in RegistryKeyInputs, client \in 1..Len(heap) :
          LET key == _generate_registry_key(in[1], in[2], in[3], in[4])
          IN /\ _client_registry' = DictSet(_client_registry, key, client)
             /\ ghost' = [ghost EXCEPT ![key].registered = TRUE]
             /\ done' = [Frame0 EXCEPT !.op = "register_client", !.key = key,
                                       !.result = client]
    /\ UNCHANGED <<_lock, _client_cache, heap, handles, invocations, pc, local, keyVars, requestVars, mappingsVars, auth_tables, adapterVars>>

\* Lines 191-194
UnregisterClient(t) ==
    /\ pc[t] = "idle"
    /\ calls < MaxCalls
    /\ CanAcquire(t)
    /\ calls' = calls + 1
    /\ \E in \in RegistryKeyInputs :
          LET key == _generate_registry_key(in[1], in[2], in[3], in[4])
          IN /\ _client_registry' = IF DictHas(_client_registry, key)
                                    THEN DictDel(_client_registry, key)
                                    ELSE _client_registry
             /\ ghost' = [ghost EXCEPT ![key].removed = TRUE]
             /\ done' = [Frame0 EXCEPT !.op = "unregister_client", !.key = key]
    /\ UNCHANGED <<_lock, _client_cache, heap, handles, invocations, pc, local, keyVars, requestVars, mappingsVars, auth_tables, adapterVars>>

\* Lines 201-202
ClearCache(t) ==
    /\ pc[t] = "idle"
    /\ calls < MaxCalls
    /\ CanAcquire(t)
    /\ calls' = calls + 1
    /\ _client_registry' = <<>>
    /\ ghost' = [k \in KeySpace |-> [ghost[k] EXCEPT !.removed = TRUE]]
    /\ done' = [Frame0 EXCEPT !.op = "clear_cache"]
    /\ UNCHANGED <<_lock, _client_cache, heap, handles, invocations, pc, local, keyVars, requestVars, mappingsVars, auth_tables, adapterVars>>

\* --------------------------------------------------------------------------
\* get_all_clients, get_client_count, get_client_by_index, get_client_by_name
\* --------------------------------------------------------------------------
\* the registry's own dict is handed out
SnapshotIsCopy_Alias == FALSE

\* dict(cls._client_registry), dict(cls._adapter_cache): a new dict with the same items
SnapshotIsCopy == TRUE

\* What the holder of the returned mapping sees in it now.
SnapshotView ==
    IF snapshot = None THEN None
    ELSE IF snapshot[1].copy THEN Some(snapshot[1].map)
    ELSE IF snapshot[1].of = "clients" THEN Some(_client_registry)
    ELSE Some(_adapter_cache)

\* Lines 209-210
GetAllClients(t) ==
    /\ pc[t] = "idle"
    /\ calls < MaxCalls
    /\ CanAcquire(t)
    /\ calls' = calls + 1
    /\ snapshot' = Some([of |-> "clients", map |-> _client_registry, copy |-> SnapshotIsCopy])
    /\ done' = [Frame0 EXCEPT !.op = "get_all_clients"]
    /\ UNCHANGED <<clientVars, pc, local, keyVars, requestVars, mappingsVars, auth_tables, _adapter_cache, _adapter_lock, adapters,
                   adapterGhost>>

\* Lines 217-218
GetClientCount(t) ==
    /\ pc[t] = "idle"
    /\ calls < MaxCalls
    /\ CanAcquire(t)
    /\ calls' = calls + 1
    /\ done' = [Frame0 EXCEPT !.op = "get_client_count", !.result = Len(_client_registry)]
    /\ UNCHANGED <<clientVars, pc, local, keyVars, requestVars, mappingsVars, auth_tables, adapterVars>>

\* the lower bound of the index is not tested
IndexOutOfRange_NoLower(index, values) == index >= Len(values)

\* Line 228: index < 0 or index >= len(values)
IndexOutOfRange(index, values) == index < 0 \/ index >= Len(values)

\* values[index] of a Python list: from the end when the index is negative
ListAt(values, index) ==
    IF index >= 0 THEN values[index + 1] ELSE values[Len(values) + index + 1]

\* Lines 226-230
GetClientByIndex(t) ==
    /\ pc[t] = "idle"
    /\ calls < MaxCalls
    /\ CanAcquire(t)
    /\ calls' = calls + 1
    /\ \E index \in IndexInputs :
          LET values == [j \in 1..Len(_client_registry) |-> _client_registry[j][2]]
              frame == [Frame0 EXCEPT !.op = "get_client_by_index", !.index = index]
          IN done' = IF IndexOutOfRange(index, values) \/ index < -Len(values)
                     THEN [frame EXCEPT !.raised = Some(IndexError)]
                     ELSE [frame EXCEPT !.result = ListAt(values, index)]
    /\ UNCHANGED <<clientVars, pc, local, keyVars, requestVars, mappingsVars, auth_tables, adapterVars>>

\* Lines 237-238: cls._client_registry[name]
GetClientByName(t) ==
    /\ pc[t] = "idle"
    /\ calls < MaxCalls
    /\ CanAcquire(t)
    /\ calls' = calls + 1
    /\ \E name \in NameInputs :
          LET frame == [Frame0 EXCEPT !.op = "get_client_by_name", !.key = name]
          IN done' = IF DictHas(_client_registry, name)
                     THEN [frame EXCEPT !.result = DictGet(_client_registry, name)]
                     ELSE [frame EXCEPT !.raised = Some(KeyError(name))]
    /\ UNCHANGED <<clientVars, pc, local, keyVars, requestVars, mappingsVars, auth_tables, adapterVars>>

\* The holder of a returned mapping empties it (mapping.clear()).
MutateSnapshot(t) ==
    /\ pc[t] = "idle"
    /\ calls < MaxCalls
    /\ snapshot # None
    /\ calls' = calls + 1
    /\ done' = [Frame0 EXCEPT !.op = "mutate_snapshot"]
    /\ IF snapshot[1].copy
       THEN /\ snapshot' = Some([snapshot[1] EXCEPT !.map = <<>>])
            /\ UNCHANGED <<_client_registry, _adapter_cache>>
       ELSE /\ UNCHANGED snapshot
            /\ _client_registry' = IF snapshot[1].of = "clients" THEN <<>> ELSE _client_registry
            /\ _adapter_cache' = IF snapshot[1].of = "adapters" THEN <<>> ELSE _adapter_cache
    /\ UNCHANGED <<_lock, _client_cache, heap, handles, invocations, ghost, pc, local, keyVars, requestVars, mappingsVars, auth_tables,
                   _adapter_lock, adapters, adapterGhost>>

\* --------------------------------------------------------------------------
\* AdapterRegistry (providers/_mappings.py)
\* --------------------------------------------------------------------------
\* a lock that excludes nobody
CanAcquireAdapter_Unlocked(t) == TRUE

\* the adapter registry takes the lock of the client registry
CanAcquireAdapter_ClientLock(t) == _lock = 0 \/ _lock = t

\* with cls._lock: of AdapterRegistry
CanAcquireAdapter(t) == _adapter_lock = 0 \/ _adapter_lock = t

\* Lines 64-65: cls._adapter_cache.get(model_provider) is not None
AdapterCached(model_provider) == DictHas(_adapter_cache, model_provider)

\* Lines 63-65, 69-71: take the lock and look the provider up; a hit returns the
\* cached adapter, a provider without an adapter class raises.
GetAdapterLookup(t) ==
    /\ pc[t] = "idle"
    /\ calls < MaxAdapterCalls
    /\ CanAcquireAdapter(t)
    /\ calls' = calls + 1
    /\ \E model_provider \in AdapterProviderInputs :
          LET frame == [Frame0 EXCEPT !.op = "get_adapter", !.provider_name = model_provider]
          IN IF AdapterCached(model_provider)
             THEN /\ Return(t, [frame EXCEPT !.hit = TRUE],
                            DictGet(_adapter_cache, model_provider))
                  /\ adapterGhost' = [adapterGhost EXCEPT ![model_provider] =
                                         GhostRec(DictGet(_adapter_cache, model_provider),
                                                  FALSE, FALSE)]
                  /\ _adapter_lock' = 0
             ELSE IF model_provider \in _PROVIDER_ADAPTER_MAP
                  THEN /\ local' = [local EXCEPT ![t] = frame]
                       /\ pc' = [pc EXCEPT ![t] = "ga_new"]
                       /\ _adapter_lock' = t
                       /\ UNCHANGED <<done, adapterGhost>>
                  ELSE /\ Raise(t, frame, ProviderNotSupportedError(model_provider))
                       /\ _adapter_lock' = 0
                       /\ UNCHANGED adapterGhost
    /\ UNCHANGED <<_adapter_cache, adapters, snapshot, clientVars, keyVars, requestVars, mappingsVars, auth_tables>>

\* Lines 67-68, 71: construct the adapter with the lock held, cache and return it.
GetAdapterConstruct(t) ==
    /\ pc[t] = "ga_new"
    /\ LET adapter == adapters + 1
       IN /\ adapters' = adapter
          /\ _adapter_cache' = DictSet(_adapter_cache, local[t].provider_name, adapter)
          /\ adapterGhost' = [adapterGhost EXCEPT ![local[t].provider_name] =
                                 GhostRec(adapter, FALSE, FALSE)]
          /\ Return(t, local[t], adapter)
    /\ _adapter_lock' = 0
    /\ UNCHANGED <<calls, snapshot, clientVars, keyVars, requestVars, mappingsVars, auth_tables>>

\* Lines 78-79
RegisterAdapter(t) ==
    /\ pc[t] = "idle"
    /\ calls < MaxAdapterCalls
    /\ CanAcquireAdapter(t)
    /\ calls' = calls + 1
    /\ \E model_provider \in AdapterProviderInputs, adapter \in 1..adapters :
          /\ _adapter_cache' = DictSet(_adapter_cache, model_provider, adapter)
          /\ adapterGhost' = [adapterGhost EXCEPT ![model_provider].registered = TRUE]
          /\ done' = [Frame0 EXCEPT !.op = "register_adapter",
                                    !.provider_name = model_provider, !.result = adapter]
    /\ UNCHANGED <<_adapter_lock, adapters, snapshot, pc, local, clientVars, keyVars, requestVars, mappingsVars, auth_tables>>

\* Lines 86-88
UnregisterAdapter(t) ==
    /\ pc[t] = "idle"
    /\ calls < MaxAdapterCalls
    /\ CanAcquireAdapter(t)
    /\ calls' = calls + 1
    /\ \E model_provider \in AdapterProviderInputs :
          /\ _adapter_cache' = IF DictHas(_adapter_cache, model_provider)
                               THEN DictDel(_adapter_cache, model_provider)
                               ELSE _adapter_cache
          /\ adapterGhost' = [adapterGhost EXCEPT ![model_provider].removed = TRUE]
          /\ done' = [Frame0 EXCEPT !.op = "unregister_adapter",
                                    !.provider_name = model_provider]
    /\ UNCHANGED <<_adapter_lock, adapters, snapshot, pc, local, clientVars, keyVars, requestVars, mappingsVars, auth_tables>>

\* Lines 96-97
AdapterClearCache(t) ==
    /\ pc[t] = "idle"
    /\ calls < MaxAdapterCalls
    /\ CanAcquireAdapter(t)
    /\ calls' = calls + 1
    /\ _adapter_cache' = <<>>
    /\ adapterGhost' = [p \in AdapterProviderInputs |-> [adapterGhost[p] EXCEPT !.removed = TRUE]]
    /\ done' = [Frame0 EXCEPT !.op = "adapter_clear_cache"]
    /\ UNCHANGED <<_adapter_lock, adapters, snapshot, pc, local, clientVars, keyVars, requestVars, mappingsVars, auth_tables>>

\* Lines 104-105
GetAllAdapters(t) ==
    /\ pc[t] = "idle"
    /\ calls < MaxAdapterCalls
    /\ CanAcquireAdapter(t)
    /\ calls' = calls + 1
    /\ snapshot' = Some([of |-> "adapters", map |-> _adapter_cache, copy |-> SnapshotIsCopy])
    /\ done' = [Frame0 EXCEPT !.op = "get_all_adapters"]
    /\ UNCHANGED <<clientVars, pc, local, keyVars, requestVars, mappingsVars, auth_tables, _adapter_cache, _adapter_lock, adapters,
                   adapterGhost>>

\* Lines 112-113
GetAdapterCount(t) ==
    /\ pc[t] = "idle"
    /\ calls < MaxAdapterCalls
    /\ CanAcquireAdapter(t)
    /\ calls' = calls + 1
    /\ done' = [Frame0 EXCEPT !.op = "get_adapter_count", !.result = Len(_adapter_cache)]
    /\ UNCHANGED <<clientVars, pc, local, keyVars, requestVars, mappingsVars, auth_tables, adapterVars>>

\* Lines 121-125
GetAdapterByIndex(t) ==
    /\ pc[t] = "idle"
    /\ calls < MaxAdapterCalls
    /\ CanAcquireAdapter(t)
    /\ calls' = calls + 1
    /\ \E index \in IndexInputs :
          LET values == [j \in 1..Len(_adapter_cache) |-> _adapter_cache[j][2]]
              frame == [Frame0 EXCEPT !.op = "get_adapter_by_index", !.index = index]
          IN done' = IF IndexOutOfRange(index, values) \/ index < -Len(values)
                     THEN [frame EXCEPT !.raised = Some(IndexError)]
                     ELSE [frame EXCEPT !.result = ListAt(values, index)]
    /\ UNCHANGED <<clientVars, pc, local, keyVars, requestVars, mappingsVars, auth_tables, adapterVars>>

\* --------------------------------------------------------------------------
\* AstralCompletionRequest (_types/_request.py)
\* --------------------------------------------------------------------------
\* Python values of request fields are written as strings: "None" is Python's None.
PyNone == "None"

\* The NOT_GIVEN sentinel of astral_ai._types._base: one object, which is not None.
NOT_GIVEN == "NOT_GIVEN"

\* Fields of the model in declaration order: the two required ones, the one
\* with a plain default, and three of those that default to NOT_GIVEN.
RequestFields == <<"model", "messages", "stream", "max_tokens", "temperature", "user">>

FieldNames == {RequestFields[j] : j \in 1..Len(RequestFields)}

\* model and messages are declared without a default
RequiredFields == {"model", "messages"}

\* Field(default=...): stream defaults to False, the optional parameters to NOT_GIVEN.
FieldDefault(f) == IF f = "stream" THEN "False" ELSE NOT_GIVEN

\* values a caller passes for a field, each one valid for the field's type as it is
FieldValues(f) ==
    CASE f = "model" -> {"gpt-4o"}
      [] f = "messages" -> {"m1"}
      [] f = "stream" -> {"False", "True"}
      [] f = "max_tokens" -> {NOT_GIVEN, PyNone, "16"}
      [] f = "temperature" -> {NOT_GIVEN, PyNone, "0.0"}
      [] OTHER -> {NOT_GIVEN, "u1"}

\* the keyword arguments of AstralCompletionRequest(**kwargs)
RequestKwargs ==
    UNION {{kw \in [RequiredFields \cup O -> UNION {FieldValues(f) : f \in FieldNames}] :
                \A f \in DOMAIN kw : kw[f] \in FieldValues(f)} :
           O \in SUBSET (FieldNames \ RequiredFields)}

\* BaseModel.__init__: every field gets the passed value or its default, and
\* the names that were passed are the model's fields-set.
AstralCompletionRequest(kw) ==
    [values |-> [f \in FieldNames |-> IF f \in DOMAIN kw THEN kw[f] ELSE FieldDefault(f)],
     model_fields_set |-> DOMAIN kw]

\* every field is dumped, set or not
BaseModel_model_dump_All(self, exclude_unset) ==
    [j \in 1..Len(RequestFields) |-> <<RequestFields[j], self.values[RequestFields[j]]>>]

\* BaseModel.model_dump(exclude_unset=...): the fields in declaration order
\* with their values, without those outside the fields-set when exclude_unset.
BaseModel_model_dump(self, exclude_unset) ==
    SelectSeq([j \in 1..Len(RequestFields) |-> <<RequestFields[j], self.values[RequestFields[j]]>>],
              LAMBDA e : ~exclude_unset \/ e[1] \in self.model_fields_set)

\* Lines 344-346
to_provider_dict(self) ==
    LET raw == BaseModel_model_dump(self, TRUE)
    IN SelectSeq(raw, LAMBDA e : e[2] # NOT_GIVEN)

\* request = AstralCompletionRequest(**kwargs)
NewRequest ==
    /\ request = None
    /\ request' = Some(AstralCompletionRequest(kwargs))
    /\ UNCHANGED <<kwargs, provider_dict, calls>>
    /\ UNCHANGED <<clientVars, pc, local, done, keyVars, adapterVars, auth_tables, mappingsVars>>

\* request.<field> = value: BaseModel.__setattr__ stores the value and adds the
\* name to the fields-set.
SetField ==
    /\ request # None
    /\ provider_dict = None
    /\ calls < MaxAssign
    /\ calls' = calls + 1
    /\ \E f \in FieldNames \ RequiredFields :
          \E v \in FieldValues(f) :
             /\ request' = Some([values |-> [request[1].values EXCEPT ![f] = v],
                                 model_fields_set |-> request[1].model_fields_set \cup {f}])
             /\ kwargs' = [g \in DOMAIN kwargs \cup {f} |-> IF g = f THEN v ELSE kwargs[g]]
    /\ UNCHANGED provider_dict
    /\ UNCHANGED <<clientVars, pc, local, done, keyVars, adapterVars, auth_tables, mappingsVars>>

\* provider_dict = request.to_provider_dict()
ToProviderDict ==
    /\ request # None
    /\ provider_dict = None
    /\ provider_dict' = Some(to_provider_dict(request[1]))
    /\ UNCHANGED <<kwargs, request, calls>>
    /\ UNCHANGED <<clientVars, pc, local, done, keyVars, adapterVars, auth_tables, mappingsVars>>

\* --------------------------------------------------------------------------
\* Specifications
\* --------------------------------------------------------------------------
\* the client registry under calls of several threads
Next ==
    \/ \E t \in Threads : GetClientCall(t)
    \/ \E t \in Threads : GetClientCached(t)
    \/ \E t \in Threads : GetClientNotSupported(t)
    \/ \E t \in Threads : GetClientConstruct(t)
    \/ \E t \in Threads : CtorInit(t)
    \/ \E t \in Threads : AuthStart(t)
    \/ \E t \in Threads : AuthInvoke(t)
    \/ \E t \in Threads : AuthExhausted(t)
    \/ \E t \in Threads : CtorDone(t)
    \/ \E t \in Threads : RegisterClient(t)
    \/ \E t \in Threads : UnregisterClient(t)
    \/ \E t \in Threads : ClearCache(t)

Spec == Init /\ [][Next]_vars

\* provider clients constructed directly, cls(config), by several threads
NextAuth ==
    \/ \E t \in Threads : DirectCall(t)
    \/ \E t \in Threads : CtorInit(t)
    \/ \E t \in Threads : AuthStart(t)
    \/ \E t \in Threads : AuthInvoke(t)
    \/ \E t \in Threads : AuthExhausted(t)
    \/ \E t \in Threads : CtorDone(t)

SpecAuth == Init /\ [][NextAuth]_vars

\* every thread calls get_client once, all with the same arguments, on an empty registry
InitConc ==
    /\ InitState
    /\ NoRequest
    /\ keyIn = KeyIn0
    /\ keyOut = None
    /\ same \in {Some(in) : in \in GetClientInputs}

\* the call itself touches no shared state: thread t enters as the t-th caller
GetClientCallSame(t) ==
    /\ pc[t] = "idle"
    /\ same # None
    /\ t = calls + 1
    /\ GetClientEnter(t, same[1][1], same[1][2], same[1][3])

NextConc ==
    \/ \E t \in Threads : GetClientCallSame(t)
    \/ \E t \in Threads : GetClientCached(t)
    \/ \E t \in Threads : GetClientNotSupported(t)
    \/ \E t \in Threads : GetClientConstruct(t)
    \/ \E t \in Threads : CtorInit(t)
    \/ \E t \in Threads : AuthStart(t)
    \/ \E t \in Threads : AuthInvoke(t)
    \/ \E t \in Threads : AuthExhausted(t)
    \/ \E t \in Threads : CtorDone(t)

SpecConc == InitConc /\ [][NextConc]_vars

\* the adapter registry under calls of several threads
NextAdapter ==
    \/ \E t \in Threads : GetAdapterLookup(t)
    \/ \E t \in Threads : GetAdapterConstruct(t)
    \/ \E t \in Threads : RegisterAdapter(t)
    \/ \E t \in Threads : UnregisterAdapter(t)
    \/ \E t \in Threads : AdapterClearCache(t)

SpecAdapter == Init /\ [][NextAdapter]_vars

\* get_client as the callers of both registries issue it
GetClientCallRegistries(t) ==
    /\ \A u \in Threads : pc[u] = "idle"
    /\ calls < MaxCalls
    /\ same = None
    /\ \E in \in RegistriesClientInputs : GetClientEnter(t, in[1], in[2], in[3])

\* the callers of both registries make at most MaxOps calls
OpsLeft == calls < MaxOps

\* both registries, all their operations
NextRegistries ==
    \/ \E t \in Threads : OpsLeft /\ GetClientCallRegistries(t)
    \/ \E t \in Threads : OpsLeft /\ RegisterClient(t)
    \/ \E t \in Threads : OpsLeft /\ UnregisterClient(t)
    \/ \E t \in Threads : OpsLeft /\ ClearCache(t)
    \/ \E t \in Threads : OpsLeft /\ GetAllClients(t)
    \/ \E t \in Threads : OpsLeft /\ GetClientCount(t)
    \/ \E t \in Threads : OpsLeft /\ GetClientByIndex(t)
    \/ \E t \in Threads : OpsLeft /\ GetClientByName(t)
    \/ \E t \in Threads : OpsLeft /\ MutateSnapshot(t)
    \/ \E t \in Threads : OpsLeft /\ GetAdapterLookup(t)
    \/ \E t \in Threads : OpsLeft /\ RegisterAdapter(t)
    \/ \E t \in Threads : OpsLeft /\ UnregisterAdapter(t)
    \/ \E t \in Threads : OpsLeft /\ AdapterClearCache(t)
    \/ \E t \in Threads : OpsLeft /\ GetAllAdapters(t)
    \/ \E t \in Threads : OpsLeft /\ GetAdapterCount(t)
    \/ \E t \in Threads : OpsLeft /\ GetAdapterByIndex(t)
    \/ \E t \in Threads : GetClientCached(t)
    \/ \E t \in Threads : GetClientNotSupported(t)
    \/ \E t \in Threads : GetClientConstruct(t)
    \/ \E t \in Threads : CtorInit(t)
    \/ \E t \in Threads : AuthStart(t)
    \/ \E t \in Threads : AuthInvoke(t)
    \/ \E t \in Threads : AuthExhausted(t)
    \/ \E t \in Threads : CtorDone(t)
    \/ \E t \in Threads : GetAdapterConstruct(t)

SpecRegistries == Init /\ [][NextRegistries]_vars

\* get_client called by a thread whatever the other threads are doing
GetClientCallThreads(t) ==
    /\ pc[t] = "idle"
    /\ OpsLeft
    /\ same = None
    /\ \E in \in ThreadsClientInputs : GetClientEnter(t, in[1], in[2], in[3])

\* the client registry under calls that overlap in time
NextThreads ==
    \/ \E t \in Threads : GetClientCallThreads(t)
    \/ \E t \in Threads : GetClientCached(t)
    \/ \E t \in Threads : GetClientNotSupported(t)
    \/ \E t \in Threads : GetClientConstruct(t)
    \/ \E t \in Threads : CtorInit(t)
    \/ \E t \in Threads : AuthStart(t)
    \/ \E t \in Threads : AuthInvoke(t)
    \/ \E t \in Threads : AuthExhausted(t)
    \/ \E t \in Threads : CtorDone(t)
    \/ \E t \in Threads : OpsLeft /\ RegisterClient(t)
    \/ \E t \in Threads : OpsLeft /\ UnregisterClient(t)
    \/ \E t \in Threads : OpsLeft /\ ClearCache(t)
    \/ \E t \in Threads : OpsLeft /\ GetAllClients(t)
    \/ \E t \in Threads : OpsLeft /\ GetClientCount(t)
    \/ \E t \in Threads : OpsLeft /\ GetClientByIndex(t)
    \/ \E t \in Threads : OpsLeft /\ GetClientByName(t)

SpecThreads == Init /\ [][NextThreads]_vars

\* _generate_registry_key evaluated on its arguments
InitKey ==
    /\ InitState
    /\ NoRequest
    /\ same = None
    /\ keyIn \in [provider_name : KeyProviderInputs, config : KeyConfigInputs,
                  client_key : KeyClientKeyInputs, async_client : BOOLEAN]
    /\ keyOut = None

GenerateKey ==
    /\ keyOut = None
    /\ keyOut' = Some(_generate_registry_key(keyIn.provider_name, keyIn.config,
                                              keyIn.client_key, keyIn.async_client))
    /\ UNCHANGED <<_client_registry, _lock, _client_cache, heap, handles, invocations, pc, local, done,
                   calls, ghost, keyIn, same, adapterVars, requestVars, mappingsVars, auth_tables>>

NextKey == GenerateKey

SpecKey == InitKey /\ [][NextKey]_vars

\* a caller builds a request, may assign a field, and serializes it
InitRequest ==
    /\ InitState
    /\ keyIn = KeyIn0
    /\ keyOut = None
    /\ same = None
    /\ kwargs \in RequestKwargs
    /\ request = None
    /\ provider_dict = None

NextRequest ==
    \/ NewRequest
    \/ SetField
    \/ ToProviderDict

SpecRequest == InitRequest /\ [][NextRequest]_vars

\* --------------------------------------------------------------------------
\* Properties of ProviderClientRegistry.get_client (Spec, SpecConc)
\* --------------------------------------------------------------------------

\* C1, as stated: two get_client calls that derive the same key, with no
\* unregister_client of that key and no clear_cache in between, return the same
\* client instance, and the second call performs no construction.
C1_Idempotent_AsStated ==
    [][\A t \in Threads :
          (/\ local[t].op = "get_client" /\ pc[t] # "idle" /\ pc'[t] = "idle"
           /\ ghost[local[t].key].last # 0
           /\ ~ghost[local[t].key].removed)
          => (/\ done'.raised = None
              /\ done'.result = ghost[local[t].key].last
              /\ done'.hit
              /\ heap' = heap)]_vars

\* C1, amended: two get_client calls that derive the same key, with no
\* unregister_client, no register_client of that key and no clear_cache in
\* between, return the same client instance, and the second call performs no
\* construction.
C1_Idempotent ==
    [][\A t \in Threads :
          (/\ local[t].op = "get_client" /\ pc[t] # "idle" /\ pc'[t] = "idle"
           /\ ghost[local[t].key].last # 0
           /\ ~ghost[local[t].key].removed
           /\ ~ghost[local[t].key].registered)
          => (/\ done'.raised = None
              /\ done'.result = ghost[local[t].key].last
              /\ done'.hit
              /\ heap' = heap)]_vars

\* C1 witness: the second of two get_client calls returned the instance that
\* the first one constructed and stored.
C1_Witness ==
    /\ calls = 2
    /\ done.op = "get_client"
    /\ done.hit
    /\ done.result = 1
    /\ Len(heap) = 1
    /\ \A t \in Threads : pc[t] = "idle"

\* C2, as stated: N threads call get_client concurrently with the same key,
\* not yet in the registry: exactly one client construction happens, the auth
\* strategy is invoked exactly once, and all N calls return the same instance.
C2_SingleConstruction_AsStated ==
    (same # None /\ GetClientKeyOf(same[1]) # None)
    => (/\ done.op = "get_client" => (done.raised = None /\ done.result = 1)
        /\ (calls = NThreads /\ \A t \in Threads : pc[t] = "idle")
           => (Len(heap) = 1 /\ invocations = 1))

\* C2, amended: N threads call get_client concurrently with the same key, not
\* yet in the registry: at most one construction succeeds (at most one strategy
\* invocation returns a handle), after it no construction starts and no
\* strategy is invoked again, and every call that returns, returns that one
\* instance, which is the one stored under the key.
C2_SingleConstruction ==
    /\ []((same # None /\ GetClientKeyOf(same[1]) # None)
          => (/\ Len(heap) <= 1
              /\ handles <= 1
              /\ (done.op = "get_client" /\ done.raised = None)
                 => (/\ done.result = 1
                     /\ DictHas(_client_registry, done.key)
                     /\ DictGet(_client_registry, done.key) = 1)))
    /\ [][(same # None /\ Len(heap) = 1)
          => (heap' = heap /\ invocations' = invocations /\ handles' = handles)]_vars

\* C2 witness: all the concurrent calls are over, one instance was constructed
\* with one strategy invocation, and the last call got it from the registry.
C2_Witness ==
    /\ same # None
    /\ calls = NThreads
    /\ \A t \in Threads : pc[t] = "idle"
    /\ Len(heap) = 1
    /\ invocations = 1
    /\ done.hit
    /\ done.result = 1

\* C3, as stated: after unregister_client of a key, or after clear_cache, the
\* next get_client that derives that key constructs a new client instance,
\* different from the one returned before the removal, and stores it under the key.
C3_ReconstructAfterRemoval_AsStated ==
    [][\A t \in Threads :
          (/\ local[t].op = "get_client" /\ pc[t] # "idle" /\ pc'[t] = "idle"
           /\ ghost[local[t].key].removed)
          => (/\ done'.raised = None
              /\ ~done'.hit
              /\ done'.result = Len(heap) + 1
              /\ heap' # heap
              /\ done'.result # ghost[local[t].key].last
              /\ DictHas(_client_registry', local[t].key)
              /\ DictGet(_client_registry', local[t].key) = done'.result)]_vars

\* C3, amended: after unregister_client of a key, or after clear_cache, the
\* next get_client that derives that key, with no register_client of that key
\* in between, never returns an instance stored earlier: it either raises and
\* leaves the registry unchanged, or constructs a new client instance,
\* different from the one returned before the removal, stores it under the key
\* and returns it.
C3_ReconstructAfterRemoval ==
    [][\A t \in Threads :
          (/\ local[t].op = "get_client" /\ pc[t] # "idle" /\ pc'[t] = "idle"
           /\ ghost[local[t].key].removed
           /\ ~ghost[local[t].key].registered)
          => (\/ /\ done'.raised # None
                 /\ _client_registry' = _client_registry
                 /\ heap' = heap
              \/ /\ done'.raised = None
                 /\ ~done'.hit
                 /\ done'.result = Len(heap) + 1
                 /\ heap' # heap
                 /\ done'.result # ghost[local[t].key].last
                 /\ DictHas(_client_registry', local[t].key)
                 /\ DictGet(_client_registry', local[t].key) = done'.result)]_vars

\* C3 witness: get_client, a removal, and a get_client that constructed a
\* second instance and stored it as the only entry of the registry.
C3_Witness ==
    /\ calls = 3
    /\ done.op = "get_client"
    /\ ~done.hit
    /\ done.result = 2
    /\ Len(heap) = 2
    /\ _client_registry = << <<done.key, 2>> >>
    /\ ghost[done.key] = GhostRec(2, FALSE, FALSE)

\* C9, as stated: when the provider config disables caching, get_client skips
\* the registry cache check, constructs a fresh client on every call, and
\* never stores the result in the registry.
C9_NoCacheSkipsRegistry_AsStated ==
    (/\ done.op = "get_client"
     /\ done.raised = None
     /\ ProviderConfigOf(done.config, None, done.provider_name).cache_client = Some(FALSE))
    => (/\ ~done.hit
        /\ \A i \in 1..Len(_client_registry) : _client_registry[i][2] # done.result)

\* C9, amended: when the provider config disables caching, get_client checks
\* the registry under the derived key like for any other config, returns the
\* stored instance on a hit and stores the constructed client under the key on
\* a miss; only the class-scoped handle cache is bypassed: the construction
\* runs authentication, does not read _client_cache and leaves it unchanged.
C9_NoCacheStillRegistered ==
    /\ []((/\ done.op = "get_client"
           /\ done.raised = None
           /\ ProviderConfigOf(done.config, None, done.provider_name).cache_client = Some(FALSE))
          => (/\ DictHas(_client_registry, done.key)
              /\ DictGet(_client_registry, done.key) = done.result
              /\ ~done.hit => (done.auth_ran /\ ~done.cache_hit)))
    /\ [][\A t \in Threads :
            (/\ local[t].op = "get_client"
             /\ ProviderConfigOf(local[t].config, None, local[t].provider_name).cache_client = Some(FALSE))
            => (/\ (pc[t] = "gc_lock" /\ pc'[t] = "idle" /\ ~CacheMiss(local[t].key))
                   => (done'.hit /\ done'.result = DictGet(_client_registry, local[t].key))
                /\ pc[t] \in {"init", "auth_start", "auth", "store"}
                   => _client_cache' = _client_cache)]_vars

\* C9 witness: a get_client with caching disabled returned the instance that an
\* earlier call with that config had stored in the registry.
C9_Witness ==
    /\ done.op = "get_client"
    /\ ProviderConfigOf(done.config, None, done.provider_name).cache_client = Some(FALSE)
    /\ done.hit
    /\ done.result # 0
    /\ heap[done.result]._config = SecNoCache

\* C15: the registry never returns or stores a partially-initialized client:
\* when construction inside get_client fails (unknown auth method,
\* single-strategy failure, aggregated failure, unsupported provider), the
\* error reaches the caller, no entry is added for the key, and every other
\* entry of the registry is unchanged.
C15_NoPartialClient ==
    /\ [](/\ \A j \in 1..Len(_client_registry) :
               /\ _client_registry[j][2] \in 1..Len(heap)
               /\ heap[_client_registry[j][2]].client.hid \in 1..handles
          /\ (done.op = "get_client" /\ done.raised = None /\ calls > 0)
             => (/\ done.result \in 1..Len(heap)
                 /\ heap[done.result].client.hid \in 1..handles))
    /\ [][\A t \in Threads :
            (/\ local[t].op = "get_client"
             /\ pc[t] # "idle" /\ pc'[t] = "idle"
             /\ pc[t] # "store"
             /\ ~(pc[t] = "gc_lock" /\ DictHas(_client_registry, local[t].key)))
            => (/\ done'.raised # None
                /\ done'.result = 0
                /\ _client_registry' = _client_registry
                /\ heap' = heap
                /\ pc[t] = "gc_lock"
                   => done'.raised[1].type \in {"ProviderNotSupportedError", "TypeError"}
                /\ pc[t] = "auth_start"
                   => done'.raised[1].type = "AstralUnknownAuthMethodError"
                /\ (pc[t] = "auth" /\ local[t].i <= Len(local[t].methods_to_try))
                   => (/\ done'.raised[1].type \in {"E1", "E2"}
                       /\ done'.raised[1].strategy = local[t].methods_to_try[local[t].i])
                /\ (pc[t] = "auth" /\ local[t].i > Len(local[t].methods_to_try))
                   => (/\ done'.raised[1].type = "MultipleAstralAuthenticationErrors"
                       /\ done'.raised[1].errors = local[t].errors))]_vars

\* C15 witness: a get_client whose construction ended in the aggregated error
\* left the registry with the one entry, of another key, that it had before.
C15_Witness ==
    /\ done.op = "get_client"
    /\ done.raised # None
    /\ done.raised[1].type = "MultipleAstralAuthenticationErrors"
    /\ Len(done.raised[1].errors) = 2
    /\ Len(_client_registry) = 1
    /\ ~DictHas(_client_registry, done.key)
    /\ Len(heap) = 1

\* --------------------------------------------------------------------------
\* Properties of _get_or_authenticate_client (SpecAuth)
\* --------------------------------------------------------------------------

\* C4: when the candidate list has exactly one strategy and that strategy
\* fails with error E, the authentication fails with exactly E, not wrapped
\* and not aggregated.
C4_FailFastSingleCandidate ==
    (/\ done.auth_ran
     /\ Len(done.methods_to_try) = 1
     /\ Len(done.invoked) = 1
     /\ done.invoked[1][2] \in {"E1", "E2"})
    => done.raised = Some(StrategyError(done.methods_to_try[1], done.invoked[1][2]))

\* C4 witness: the single DeepSeek strategy raised and the construction failed
\* with that very error.
C4_Witness ==
    /\ done.op = "direct"
    /\ done.cls = "deepseek"
    /\ done.methods_to_try = <<"api_key_with_base_url">>
    /\ done.invoked = << <<"api_key_with_base_url", "E2">> >>
    /\ done.raised = Some(StrategyError("api_key_with_base_url", "E2"))

\* C5: with no pinned method, as soon as one strategy returns a non-empty
\* handle, that handle is the result, no strategy after it in the table is
\* invoked, and the failures of the strategies before it are not raised.
C5_FallbackShortCircuit ==
    (/\ done.auth_ran
     /\ done._config.auth_method = None
     /\ \E j \in 1..Len(done.invoked) : done.invoked[j][2] = "ok")
    => LET j == CHOOSE j \in 1..Len(done.invoked) : done.invoked[j][2] = "ok"
       IN /\ j = Len(done.invoked)
          /\ \A i \in 1..j : done.invoked[i][1] = _auth_strategies(done.cls)[i]
          /\ done.raised = None
          /\ done.result # 0
          /\ heap[done.result].client = done.handle[1]
          /\ done.handle[1].by = done.invoked[j][1]

\* C5 witness: the first of two unpinned strategies failed, the second one
\* returned the handle of the constructed client.
C5_Witness ==
    /\ done.op = "direct"
    /\ done._config.auth_method = None
    /\ done.invoked = << <<"api_key", "E1">>, <<"api_key_with_base_url", "ok">> >>
    /\ done.raised = None
    /\ done.result # 0
    /\ heap[done.result].client.by = "api_key_with_base_url"

\* C6: with no pinned method and two or more registered strategies that all
\* fail, the authentication fails with the aggregated error, whose error list
\* holds exactly one (name, error) pair for every strategy of the table, in
\* the order they were attempted, and which names the provider.
C6_TotalFallbackFailure ==
    (/\ done.auth_ran
     /\ done._config.auth_method = None
     /\ Len(_auth_strategies(done.cls)) >= 2
     /\ Len(done.invoked) = Len(_auth_strategies(done.cls))
     /\ \A i \in 1..Len(done.invoked) : done.invoked[i][2] \in {"E1", "E2"})
    => done.raised =
         Some(MultipleAstralAuthenticationErrors(done.cls,
                [i \in 1..Len(_auth_strategies(done.cls)) |->
                    <<_auth_strategies(done.cls)[i],
                      StrategyError(_auth_strategies(done.cls)[i], done.invoked[i][2])>>]))

\* C6 witness: both strategies of the OpenAI client raised and the aggregated
\* error carries the two failures.
C6_Witness ==
    /\ done.op = "direct"
    /\ done.cls = "openai"
    /\ done.invoked = << <<"api_key", "E1">>, <<"api_key_with_base_url", "E1">> >>
    /\ done.raised # None
    /\ done.raised[1].type = "MultipleAstralAuthenticationErrors"
    /\ Len(done.raised[1].errors) = 2

\* C7: the aggregated authentication error is raised only when more than one
\* strategy was attempted and every one of them failed; it is never raised
\* after an attempt of zero or one strategy, and its error list holds a
\* failure for every strategy attempted.
C7_AggregatedOnlyAfterMultipleFailures ==
    (done.raised # None /\ done.raised[1].type = "MultipleAstralAuthenticationErrors")
    => (/\ Len(done.invoked) > 1
        /\ \A i \in 1..Len(done.invoked) : done.invoked[i][2] \in {"E1", "E2"}
        /\ Len(done.raised[1].errors) = Len(done.invoked))

C10_KeyDerivation ==
    keyOut # None
    => LET suffix == IF keyIn.async_client THEN ".async" ELSE ""
       IN /\ Truthy(keyIn.client_key) => keyOut[1] = keyIn.client_key[1] \o suffix
          /\ (~Truthy(keyIn.client_key) /\ keyIn.config # None)
             => keyOut[1] = keyIn.provider_name \o "_"
                               \o ToString(hash(json_dumps(keyIn.config[1]))) \o suffix
          /\ (~Truthy(keyIn.client_key) /\ keyIn.config = None)
             => keyOut[1] = keyIn.provider_name \o suffix

\* C10 witness: a key derived from an explicit client_key although a config
\* was supplied too.
C10_Witness ==
    /\ keyOut = Some("k1")
    /\ keyIn.client_key = Some("k1")
    /\ keyIn.config # None
    /\ ~keyIn.async_client

\* C11: for the same provider, config and explicit key, the key derived for
\* the asynchronous variant differs from the key derived for the synchronous
\* variant, by _generate_registry_key and by the key derivation of get_client,
\* so the two variants never name the same registry entry.
C11_VariantKeysDiffer ==
    keyOut # None
    => LET other == _generate_registry_key(keyIn.provider_name, keyIn.config,
                                           keyIn.client_key, ~keyIn.async_client)
           params == Some(AstralClientParams(FALSE, keyIn.client_key, keyIn.config))
       IN /\ other # keyOut[1]
          /\ GetClientKey(keyIn.provider_name, params, keyIn.async_client) = keyOut
          /\ GetClientKey(keyIn.provider_name, params, ~keyIn.async_client) # keyOut
          /\ GetClientKey(keyIn.provider_name, None, TRUE)
                # GetClientKey(keyIn.provider_name, None, FALSE)

\* C11 witness: the key of an asynchronous client derived from a config with no
\* explicit key.
C11_Witness ==
    /\ keyOut # None
    /\ keyIn.async_client
    /\ keyIn.config = CfgNoCache
    /\ keyIn.client_key = None
    /\ keyOut[1] = _generate_registry_key(keyIn.provider_name, keyIn.config, None, FALSE)
                      \o ".async"

\* C12: key determinism: equal (provider, config) pairs derive the same
\* registry key, whatever the order in which the config's keys were inserted.
C12_KeyDeterminism ==
    keyOut # None
    => \A c \in KeyConfigInputs :
          (/\ c # None /\ keyIn.config # None
           /\ DictKeys(c[1]) = DictKeys(keyIn.config[1])
           /\ \A k \in DictKeys(c[1]) : DictGet(c[1], k) = DictGet(keyIn.config[1], k))
          => _generate_registry_key(keyIn.provider_name, c, keyIn.client_key,
                                    keyIn.async_client) = keyOut[1]

\* C12 witness: a key derived from a two-provider config whose keys were
\* inserted in descending order, with no explicit key.
C12_Witness ==
    /\ keyOut # None
    /\ keyIn.config = Some(<< <<"openai", SecBogus>>, <<"anthropic", SecCache>> >>)
    /\ ~Truthy(keyIn.client_key)
    /\ keyOut[1] = _generate_registry_key(keyIn.provider_name,
                       Some(<< <<"anthropic", SecCache>>, <<"openai", SecBogus>> >>),
                       None, keyIn.async_client)

\* --------------------------------------------------------------------------
\* Properties of AdapterRegistry (SpecAdapter)
\* --------------------------------------------------------------------------

\* C19, as stated: get_adapter constructs the adapter of a supported provider
\* on the first request and caches it; later get_adapter calls for that
\* provider, sequential or concurrent, return that same instance with no
\* further construction until unregister_adapter or clear_cache.
C19_LazyAdapter_AsStated ==
    [][(/\ done'.op = "get_adapter"
        /\ \/ calls' = calls + 1 /\ pc' = pc
           \/ \E t \in Threads : pc[t] = "ga_new" /\ pc'[t] = "idle")
       => LET p == done'.provider_name
          IN /\ (p \in _PROVIDER_ADAPTER_MAP /\ adapterGhost[p] = GhostRec(0, FALSE, FALSE))
                => (/\ done'.raised = None
                    /\ adapters' = adapters + 1
                    /\ done'.result = adapters'
                    /\ DictGet(_adapter_cache', p) = done'.result)
             /\ (adapterGhost[p].last # 0 /\ ~adapterGhost[p].removed)
                => (/\ done'.raised = None
                    /\ done'.result = adapterGhost[p].last
                    /\ adapters' = adapters
                    /\ _adapter_cache' = _adapter_cache)]_vars

\* C19, amended: get_adapter constructs the adapter of a supported provider on
\* the first request and caches it; later get_adapter calls for that provider,
\* sequential or concurrent, return that same instance with no further
\* construction until unregister_adapter, register_adapter for that provider,
\* or clear_cache.
C19_LazyAdapter ==
    [][(/\ done'.op = "get_adapter"
        /\ \/ calls' = calls + 1 /\ pc' = pc
           \/ \E t \in Threads : pc[t] = "ga_new" /\ pc'[t] = "idle")
       => LET p == done'.provider_name
          IN /\ (p \in _PROVIDER_ADAPTER_MAP /\ adapterGhost[p] = GhostRec(0, FALSE, FALSE))
                => (/\ done'.raised = None
                    /\ adapters' = adapters + 1
                    /\ done'.result = adapters'
                    /\ DictGet(_adapter_cache', p) = done'.result)
             /\ (/\ adapterGhost[p].last # 0
                 /\ ~adapterGhost[p].removed
                 /\ ~adapterGhost[p].registered)
                => (/\ done'.raised = None
                    /\ done'.result = adapterGhost[p].last
                    /\ adapters' = adapters
                    /\ _adapter_cache' = _adapter_cache)]_vars

\* C19 witness: a second get_adapter for a provider returned the adapter that
\* the first one had constructed; no other adapter exists.
C19_Witness ==
    /\ done.op = "get_adapter"
    /\ done.hit
    /\ done.result = 1
    /\ adapters = 1
    /\ calls = 2
    /\ _adapter_cache = << <<done.provider_name, 1>> >>

\* --------------------------------------------------------------------------
\* Properties of the two registries together (SpecRegistries)
\* --------------------------------------------------------------------------

\* C13, as stated: for every provider identifier that is not in the
\* supported-provider map, in every registry state, both get_adapter and
\* get_client fail with ProviderNotSupportedError naming that provider.
C13_UnsupportedProvider_AsStated ==
    /\ (done.op = "get_client" /\ done.provider_name \notin _PROVIDER_CLIENT_MAP)
       => (/\ done.raised # None
           /\ done.raised[1].type = "ProviderNotSupportedError"
           /\ done.raised[1].provider_name = done.provider_name)
    /\ (done.op = "get_adapter" /\ done.provider_name \notin _PROVIDER_ADAPTER_MAP)
       => (/\ done.raised # None
           /\ done.raised[1].type = "ProviderNotSupportedError"
           /\ done.raised[1].provider_name = done.provider_name)

\* C13, amended: for every provider identifier that is not in the registry's
\* provider map, get_adapter fails with ProviderNotSupportedError naming that
\* provider unless an adapter is cached under that provider, which it then
\* returns; get_client fails with ProviderNotSupportedError naming that
\* provider, once its arguments have derived a key, unless that key is already
\* in the client registry, whose entry it then returns.  A failing call leaves
\* its registry unchanged.
C13_UnsupportedProvider ==
    /\ [][\A t \in Threads :
            (/\ local[t].op = "get_client" /\ pc[t] = "gc_lock" /\ pc'[t] = "idle"
             /\ local[t].provider_name \notin _PROVIDER_CLIENT_MAP)
            => IF DictHas(_client_registry, local[t].key)
               THEN /\ done'.raised = None
                    /\ done'.result = DictGet(_client_registry, local[t].key)
               ELSE /\ done'.raised # None
                    /\ done'.raised[1].type = "ProviderNotSupportedError"
                    /\ done'.raised[1].provider_name = local[t].provider_name
                    /\ _client_registry' = _client_registry]_vars
    /\ [][(/\ done'.op = "get_adapter" /\ calls' = calls + 1 /\ pc' = pc
           /\ done'.provider_name \notin _PROVIDER_ADAPTER_MAP)
          => IF DictHas(_adapter_cache, done'.provider_name)
             THEN /\ done'.raised = None
                  /\ done'.result = DictGet(_adapter_cache, done'.provider_name)
             ELSE /\ done'.raised # None
                  /\ done'.raised[1].type = "ProviderNotSupportedError"
                  /\ done'.raised[1].provider_name = done'.provider_name
                  /\ _adapter_cache' = _adapter_cache]_vars

\* C13 witness: get_client for a provider without a client class failed with
\* ProviderNotSupportedError while the registry held an entry of another key.
C13_Witness ==
    /\ done.op = "get_client"
    /\ done.provider_name = "cohere"
    /\ done.raised = Some([type |-> "ProviderNotSupportedError", provider_name |-> "cohere"])
    /\ Len(_client_registry) = 1
    /\ ~DictHas(_client_registry, done.key)

\* C16: get_client_by_name(key) fails with a not-found error exactly when key
\* is not in the registry, and get_client_by_index(i) fails with an
\* out-of-range error exactly when i < 0 or i >= get_client_count(); otherwise
\* each returns a client currently stored in the registry, and neither changes
\* the registry.
C16_Lookups ==
    [][(calls' = calls + 1 /\ pc' = pc)
       => /\ done'.op = "get_client_by_name"
             => (/\ _client_registry' = _client_registry
                 /\ IF done'.key \in DictKeys(_client_registry)
                    THEN /\ done'.raised = None
                         /\ done'.result = DictGet(_client_registry, done'.key)
                    ELSE /\ done'.raised = Some(KeyError(done'.key))
                         /\ done'.result = 0)
          /\ done'.op = "get_client_by_index"
             => (/\ _client_registry' = _client_registry
                 /\ IF done'.index < 0 \/ done'.index >= Len(_client_registry)
                    THEN /\ done'.raised = Some(IndexError)
                         /\ done'.result = 0
                    ELSE /\ done'.raised = None
                         /\ done'.result = _client_registry[done'.index + 1][2])]_vars

\* C16 witness: get_client_by_index(1) returned the second of two stored clients.
C16_Witness ==
    /\ done.op = "get_client_by_index"
    /\ done.index = 1
    /\ done.raised = None
    /\ Len(_client_registry) = 2
    /\ done.result = _client_registry[2][2]

\* C17: get_all_clients and get_all_adapters return a snapshot copy: a later
\* register, unregister, get or clear on the registry does not change a
\* snapshot already returned, and changing the returned mapping does not
\* change the registry.
C17_SnapshotCopy ==
    [][/\ (calls' = calls + 1 /\ done'.op = "get_all_clients")
          => (SnapshotView' = Some(_client_registry) /\ _client_registry' = _client_registry)
       /\ (calls' = calls + 1 /\ done'.op = "get_all_adapters")
          => (SnapshotView' = Some(_adapter_cache) /\ _adapter_cache' = _adapter_cache)
       /\ (calls' = calls + 1 /\ done'.op = "mutate_snapshot")
          => (/\ _client_registry' = _client_registry
              /\ _adapter_cache' = _adapter_cache
              /\ SnapshotView' = Some(<<>>))
       /\ (/\ snapshot # None
           /\ ~(calls' = calls + 1
                /\ done'.op \in {"get_all_clients", "get_all_adapters", "mutate_snapshot"}))
          => SnapshotView' = SnapshotView]_vars

\* C17 witness: the snapshot that get_all_clients returned still holds the one
\* entry of that time after the registry has been emptied.
C17_Witness ==
    /\ snapshot # None
    /\ snapshot[1].of = "clients"
    /\ SnapshotView # None
    /\ Len(SnapshotView[1]) = 1
    /\ _client_registry = <<>>
    /\ done.op \in {"clear_cache", "unregister_client"}

\* C18: a client-registry entry never disappears or changes on its own: once
\* key K maps to client C, K keeps mapping to C across every sequence of
\* operations until unregister_client of K, clear_cache, or register_client on
\* K; get_client, the count, list and lookup operations never remove or
\* replace an existing entry.
C18_EntriesPersist ==
    [][\A k \in DictKeys(_client_registry) :
          (k \notin DictKeys(_client_registry')
             \/ DictGet(_client_registry', k) # DictGet(_client_registry, k))
          => (/\ calls' = calls + 1
              /\ pc' = pc
              /\ \/ done'.op = "clear_cache"
                 \/ done'.op \in {"unregister_client", "register_client"} /\ done'.key = k)]_vars

\* C18 witness: after unregister_client of a key that get_client had stored,
\* the entry of the other key is still in the registry.
C18_Witness ==
    /\ done.op = "unregister_client"
    /\ ghost[done.key].last # 0
    /\ ghost[done.key].removed
    /\ Len(_client_registry) = 1
    /\ _client_registry[1][1] # done.key
    /\ _client_registry[1][2] = ghost[done.key].last

\* --------------------------------------------------------------------------
\* Properties of the client registry under overlapping calls (SpecThreads)
\* --------------------------------------------------------------------------

\* C14: get_client with new_client true and no client_key (absent or empty)
\* fails with a ValueError before the registry lock is taken, before any client
\* construction or authentication starts, and leaves the registry unchanged.
C14_NewClientNeedsKey ==
    /\ [](/\ \A t \in Threads :
               ~(/\ local[t].op = "get_client"
                 /\ local[t].new_client
                 /\ ~Truthy(local[t].client_key))
          /\ (done.op = "get_client" /\ done.new_client /\ ~Truthy(done.client_key))
             => (/\ done.raised = Some(ValueError)
                 /\ done.result = 0
                 /\ done.cls = ""
                 /\ ~done.auth_ran
                 /\ ~done.cache_hit))
    /\ [][(/\ calls' = calls + 1
           /\ done'.op = "get_client"
           /\ done'.new_client
           /\ ~Truthy(done'.client_key)
           /\ pc' = pc)
          => (/\ _client_registry' = _client_registry
              /\ _lock' = _lock
              /\ _client_cache' = _client_cache
              /\ heap' = heap
              /\ handles' = handles)]_vars

\* C14 witness: a get_client with new_client true and an empty client_key has
\* failed with ValueError while another thread held the registry lock inside a
\* construction.
C14_Witness ==
    /\ done.op = "get_client"
    /\ done.new_client
    /\ done.client_key = Some("")
    /\ done.raised = Some(ValueError)
    /\ \E t \in Threads : _lock = t /\ pc[t] = "auth"

\* C20, as stated: while one thread's get_client is constructing a client,
\* every client-registry operation called by another thread (get_client,
\* register_client, unregister_client, clear_cache, count, list, lookups)
\* waits and completes only after that construction has finished.
C20_ConstructionBlocks_AsStated ==
    [][\A t \in Threads :
          (_lock = t /\ pc[t] \in {"init", "auth_start", "auth", "store"})
          => (/\ ~(calls' = calls + 1 /\ pc' = pc)
              /\ \A u \in Threads \ {t} :
                    /\ ~(pc[u] # "idle" /\ pc'[u] = "idle")
                    /\ pc[u] = "gc_lock" => pc'[u] = "gc_lock")]_vars

\* C20, amended: while one thread's get_client is constructing a client, every
\* client-registry operation called by another thread (get_client,
\* register_client, unregister_client, clear_cache, count, list, lookups)
\* waits and completes only after that construction has finished, except a
\* get_client that fails with ValueError in its key derivation, which takes no
\* lock and changes nothing.
C20_ConstructionBlocks ==
    [][\A t \in Threads :
          (_lock = t /\ pc[t] \in {"init", "auth_start", "auth", "store"})
          => (/\ (calls' = calls + 1 /\ pc' = pc)
                 => (/\ done'.op = "get_client"
                     /\ done'.raised = Some(ValueError)
                     /\ _client_registry' = _client_registry
                     /\ snapshot' = snapshot
                     /\ _lock' = _lock)
              /\ \A u \in Threads \ {t} :
                    /\ ~(pc[u] # "idle" /\ pc'[u] = "idle")
                    /\ pc[u] = "gc_lock" => pc'[u] = "gc_lock")]_vars

\* C20 witness: one thread is inside the authentication of its construction,
\* holding the lock, and another thread's get_client waits for the lock.
C20_Witness ==
    \E t \in Threads, u \in Threads :
        /\ _lock = t
        /\ pc[t] = "auth"
        /\ local[t].invoked # <<>>
        /\ pc[u] = "gc_lock"

\* --------------------------------------------------------------------------
\* Properties of the two registries side by side (SpecRegistries)
\* --------------------------------------------------------------------------

\* C21: the client registry and the adapter registry are each guarded by their
\* own lock: an adapter-registry operation can complete while another thread
\* holds the client-registry lock during a construction, and no operation of
\* either registry acquires the other registry's lock.
C21_SeparateLocks ==
    /\ [](\A t \in Threads : \A u \in Threads \ {t} :
            /\ (/\ _lock = t
                /\ pc[t] \in {"init", "auth_start", "auth", "store"}
                /\ pc[u] = "idle"
                /\ _adapter_lock = 0
                /\ calls < MaxAdapterCalls)
               => (ENABLED GetAdapterLookup(u) /\ ENABLED GetAdapterCount(u))
            /\ (/\ _lock = t
                /\ pc[t] \in {"init", "auth_start", "auth", "store"}
                /\ pc[u] = "ga_new")
               => ENABLED GetAdapterConstruct(u)
            /\ (/\ _adapter_lock = u
                /\ pc[t] = "idle"
                /\ _lock = 0
                /\ calls < MaxCalls)
               => ENABLED GetClientCount(t))
    /\ [][/\ _lock' # _lock
             => (/\ _adapter_lock' = _adapter_lock
                 /\ \E t \in Threads :
                       /\ pc'[t] # pc[t]
                       /\ "get_client" \in {local[t].op, local'[t].op})
          /\ _adapter_lock' # _adapter_lock
             => (/\ _lock' = _lock
                 /\ \E t \in Threads :
                       /\ pc'[t] # pc[t]
                       /\ "get_adapter" \in {local[t].op, local'[t].op})]_vars

\* C21 witness: one thread holds the client-registry lock inside a construction
\* while another thread holds the adapter-registry lock inside get_adapter.
C21_Witness ==
    \E t \in Threads, u \in Threads :
        /\ t # u
        /\ _lock = t
        /\ pc[t] = "auth"
        /\ _adapter_lock = u
        /\ pc[u] = "ga_new"

\* --------------------------------------------------------------------------
\* Properties of AstralCompletionRequest.to_provider_dict (SpecRequest)
\* --------------------------------------------------------------------------

\* C22: to_provider_dict drops every field the caller left unset and every
\* field whose value is the NOT_GIVEN sentinel, and forwards every field the
\* caller set explicitly, including one set explicitly to None or to a value
\* equal to the field's default, under the same key with the same value.
C22_ToProviderDict ==
    provider_dict # None
    => LET d == provider_dict[1]
       IN /\ \A f \in FieldNames :
                /\ DictHas(d, f) <=> (f \in DOMAIN kwargs /\ kwargs[f] # "NOT_GIVEN")
                /\ DictHas(d, f) => DictGet(d, f) = kwargs[f]
          /\ DictKeys(d) \subseteq FieldNames
          /\ Cardinality(DictKeys(d)) = Len(d)

\* C22 witness: of a request built with stream=False, temperature=None and
\* user=NOT_GIVEN and without max_tokens, the dict holds stream and
\* temperature and neither user nor max_tokens.
C22_Witness ==
    /\ provider_dict = Some(<< <<"model", "gpt-4o">>, <<"messages", "m1">>,
                               <<"stream", "False">>, <<"temperature", "None">> >>)
    /\ DOMAIN kwargs = {"model", "messages", "stream", "temperature", "user"}
    /\ kwargs["user"] = "NOT_GIVEN"

\* --------------------------------------------------------------------------
\* Properties of BaseProviderClient.__init__ (SpecAuth)
\* --------------------------------------------------------------------------

\* C23, as stated: the resolved configuration of a provider client merges the
\* optional explicit configuration with the provider's section of the external
\* config source: when an explicit configuration is supplied, a setting
\* present only in the external source (a pinned auth method, the cache flag)
\* is still part of the resolved provider config.
C23_ConfigMerged_AsStated ==
    \A t \in Threads :
        (pc[t] \in {"auth_start", "auth", "store"} /\ local[t].config # None)
        => LET explicit == ConfigGet(local[t].config[1], local[t].cls, SecDefault)
               external == IF local[t].yaml = None THEN SecDefault
                           ELSE ConfigGet(local[t].yaml[1], local[t].cls, SecDefault)
           IN /\ (explicit.auth_method = None /\ external.auth_method # None)
                 => local[t]._config.auth_method = external.auth_method
              /\ (explicit.cache_client = None /\ external.cache_client # None)
                 => local[t]._config.cache_client = external.cache_client

\* C23, amended: the resolved configuration of a provider client is the
\* provider's section of the explicit configuration when a non-empty one is
\* supplied, and the provider's section of the external config source
\* otherwise; the two are not merged: when a non-empty explicit configuration
\* is supplied, a setting present only in the external source is not part of
\* the resolved provider config.
C23_ConfigFallback ==
    \A t \in Threads :
        pc[t] \in {"auth_start", "auth", "store"}
        => LET supplied == local[t].config # None /\ local[t].config[1] # <<>>
               external == IF local[t].yaml = None THEN <<>> ELSE local[t].yaml[1]
               source == IF supplied THEN local[t].config[1] ELSE external
           IN /\ DictHas(source, local[t].cls)
                 => local[t]._config = DictGet(source, local[t].cls)
              /\ ~DictHas(source, local[t].cls)
                 => local[t]._config = Section(None, None)

\* C23 witness: a client built from an explicit config whose section sets only
\* the cache flag, while the external source pins an auth method for the same
\* provider, resolved its config to the explicit section and authenticated.
C23_Witness ==
    \E t \in Threads :
        /\ pc[t] = "store"
        /\ local[t].config = CfgNoCache
        /\ local[t].yaml = Some(<< <<"openai", SecBogus>> >>)
        /\ local[t].cls = "openai"
        /\ local[t]._config = SecNoCache
        /\ local[t].auth_ran

\* --------------------------------------------------------------------------
\* Properties of register_client (Spec)
\* --------------------------------------------------------------------------

\* C24: register_client registers or replaces: after register_client(provider,
\* client, config, key, variant), a get_client whose parameters derive the same
\* key returns exactly the registered client with no construction, whether or
\* not an entry existed for that key before, and no other key's entry changes.
C24_RegisterOrReplace ==
    [][/\ (calls' = calls + 1 /\ pc' = pc /\ done'.op = "register_client")
          => (/\ DictHas(_client_registry', done'.key)
              /\ DictGet(_client_registry', done'.key) = done'.result
              /\ DictKeys(_client_registry') = DictKeys(_client_registry) \cup {done'.key}
              /\ \A k \in DictKeys(_client_registry) \ {done'.key} :
                    DictGet(_client_registry', k) = DictGet(_client_registry, k)
              /\ heap' = heap)
       /\ \A t \in Threads :
             (/\ pc[t] = "gc_lock" /\ pc'[t] # "gc_lock"
              /\ local[t].key \in DictKeys(_client_registry))
             => (/\ pc'[t] = "idle"
                 /\ done'.raised = None
                 /\ done'.result = DictGet(_client_registry, local[t].key)
                 /\ _client_registry' = _client_registry
                 /\ heap' = heap /\ handles' = handles)]_vars

\* C24 witness: get_client with a config returned, without constructing, the
\* client of another config that register_client had stored under its key.
C24_Witness ==
    /\ done.op = "get_client"
    /\ done.config = CfgNoCache
    /\ done.hit
    /\ done.raised = None
    /\ done.result = 1
    /\ heap[1]._config = SecDefault
    /\ Len(heap) = 1

\* C25: the cache-enable flag defaults to true: a provider config that does not
\* set cache_client behaves exactly like one that sets it to true, so the
\* authenticated handle of the first successful construction of a
\* provider-client type is stored in the class-scoped cache and reused by
\* later constructions of that type (those that start once it is stored).
C25_CacheFlagDefaultsTrue ==
    [][\A t \in Threads :
          /\ (/\ pc[t] = "init" /\ pc'[t] # "init"
              /\ local'[t]._config.cache_client \in {None, Some(TRUE)})
             => IF local[t].cls \in DictKeys(_client_cache)
                THEN /\ pc'[t] = "store"
                     /\ local'[t].handle = Some(DictGet(_client_cache, local[t].cls))
                     /\ ~local'[t].auth_ran
                     /\ handles' = handles
                     /\ _client_cache' = _client_cache
                ELSE /\ pc'[t] = "auth_start"
                     /\ local'[t].auth_ran
          /\ (/\ pc[t] = "auth" /\ pc'[t] = "store"
              /\ local[t]._config.cache_client \in {None, Some(TRUE)})
             => (/\ local[t].cls \in DictKeys(_client_cache')
                 /\ Some(DictGet(_client_cache', local[t].cls)) = local'[t].handle
                 /\ local'[t].handle[1].hid = handles'
                 /\ \A c \in DictKeys(_client_cache) \ {local[t].cls} :
                       /\ c \in DictKeys(_client_cache')
                       /\ DictGet(_client_cache', c) = DictGet(_client_cache, c))]_vars

\* C25 witness: a second client of a type, built from a config that does not
\* set cache_client, holds the handle that the first construction stored.
C25_Witness ==
    \E t \in Threads :
        /\ pc[t] = "store"
        /\ local[t]._config.cache_client = None
        /\ local[t].cache_hit
        /\ Len(heap) = 1
        /\ heap[1].cls = local[t].cls
        /\ local[t].handle = Some(heap[1].client)
        /\ DictGet(_client_cache, local[t].cls) = heap[1].client

\* --------------------------------------------------------------------------
\* Properties of the candidate list of _get_or_authenticate_client (SpecAuth)
\* --------------------------------------------------------------------------

\* C26: with no pinned method, strategies are attempted in registration order:
\* a strategy is invoked only after every strategy registered before it has
\* been invoked and has failed (raised, or returned no handle), and each
\* strategy is invoked at most once per authentication.
C26_RegistrationOrder ==
    /\ \A t \in Threads :
          (local[t].auth_ran /\ local[t]._config.auth_method = None)
          => LET invoked == local[t].invoked
                 table == _auth_strategies(local[t].cls)
             IN /\ Len(invoked) <= Len(table)
                /\ \A j \in 1..Len(invoked) :
                      /\ invoked[j][1] = table[j]
                      /\ j < Len(invoked) => invoked[j][2] # "ok"
                      /\ \A k \in 1..Len(invoked) : k # j => invoked[k][1] # invoked[j][1]
    /\ (done.auth_ran /\ done._config.auth_method = None)
       => (/\ Len(done.invoked) <= Len(_auth_strategies(done.cls))
           /\ \A j \in 1..Len(done.invoked) :
                 /\ done.invoked[j][1] = _auth_strategies(done.cls)[j]
                 /\ j < Len(done.invoked) => done.invoked[j][2] # "ok"
                 /\ \A k \in 1..Len(done.invoked) :
                       k # j => done.invoked[k][1] # done.invoked[j][1])

\* C26 witness: the second strategy of the table is being attempted after the
\* first one was invoked and raised.
C26_Witness ==
    \E t \in Threads :
        /\ pc[t] = "auth"
        /\ local[t]._config.auth_method = None
        /\ local[t].cls = "openai"
        /\ local[t].invoked = << <<"api_key", "E1">> >>
        /\ local[t].i = 2
        /\ local[t].methods_to_try[2] = "api_key_with_base_url"

\* C27: when the provider config pins a method name that is in the table, only
\* that strategy is ever invoked during the authentication: no other
\* registered strategy is tried, also when the pinned strategy fails.
C27_PinnedOnly ==
    /\ \A t \in Threads :
          (local[t].auth_ran /\ local[t]._config.auth_method # None)
          => (/\ Len(local[t].invoked) <= 1
              /\ \A j \in 1..Len(local[t].invoked) :
                    local[t].invoked[j][1] = local[t]._config.auth_method[1])
    /\ (done.auth_ran /\ done._config.auth_method # None)
       => (/\ Len(done.invoked) <= 1
           /\ \A j \in 1..Len(done.invoked) :
                 done.invoked[j][1] = done._config.auth_method[1])

\* C27 witness: the pinned strategy of a two-strategy table raised and the
\* authentication ended with that one invocation.
C27_Witness ==
    /\ done.auth_ran
    /\ done.cls = "openai"
    /\ done._config.auth_method = Some("api_key")
    /\ done.invoked = << <<"api_key", "E1">> >>
    /\ done.raised = Some(StrategyError("api_key", "E1"))

\* --------------------------------------------------------------------------
\* Properties of the class-scoped handle cache (SpecAuth)
\* --------------------------------------------------------------------------

\* C28: a configuration error is never silently swallowed: every construction
\* of a provider client whose resolved config pins an auth method name absent
\* from the strategy table fails with the unknown-auth-method error, whatever
\* clients of that provider type were constructed earlier in the process.
C28_ConfigErrorNeverSwallowed ==
    (/\ done.op = "direct"
     /\ done.auth_ran \/ done.cache_hit
     /\ done._config.auth_method # None
     /\ \A j \in 1..Len(_auth_strategies(done.cls)) :
           _auth_strategies(done.cls)[j] # done._config.auth_method[1])
    => (/\ done.raised # None
        /\ done.raised[1].type = "AstralUnknownAuthMethodError"
        /\ done.raised[1].auth_method_name = done._config.auth_method[1]
        /\ done.result = 0)

\* C29: when the provider config sets cache_client to false, constructing a
\* provider client always runs authentication, never reads the class-scoped
\* handle cache, and leaves that cache unchanged.
C29_NoCacheBypassesClassCache ==
    [][\A t \in Threads :
          /\ (/\ pc[t] = "init" /\ pc'[t] # "init"
              /\ local'[t]._config.cache_client = Some(FALSE))
             => (/\ pc'[t] = "auth_start"
                 /\ local'[t].auth_ran
                 /\ ~local'[t].cache_hit
                 /\ local'[t].handle = None
                 /\ _client_cache' = _client_cache)
          /\ (/\ pc[t] \in {"auth_start", "auth", "store"}
              /\ pc'[t] # pc[t] \/ local'[t] # local[t]
              /\ local[t]._config.cache_client = Some(FALSE))
             => (/\ _client_cache' = _client_cache
                 /\ (pc[t] = "auth" /\ pc'[t] = "store")
                    => local'[t].handle[1].hid = handles + 1
                 /\ (pc[t] = "store" /\ pc'[t] = "idle")
                    => (/\ done'.auth_ran
                        /\ Len(done'.invoked) >= 1
                        /\ heap'[done'.result].client.by
                              = done'.invoked[Len(done'.invoked)][1]))]_vars

\* C29 witness: with the handle of its type in the class cache, a client built
\* with cache_client false holds a handle of its own, and the cache still
\* holds the earlier one.
C29_Witness ==
    \E t \in Threads :
        /\ pc[t] = "store"
        /\ local[t]._config.cache_client = Some(FALSE)
        /\ local[t].auth_ran
        /\ local[t].cls \in DictKeys(_client_cache)
        /\ local[t].handle[1].hid = 2
        /\ DictGet(_client_cache, local[t].cls).hid = 1

\* --------------------------------------------------------------------------
\* Properties of the auth strategy tables (Spec)
\* --------------------------------------------------------------------------

\* C30: the auth strategy table of a provider-client type is read-only after
\* type initialization: no client construction, authentication attempt
\* (successful or failed) or registry operation adds, removes, reorders or
\* replaces an entry of the table.
C30_TablesReadOnly ==
    /\ DOMAIN auth_tables = _PROVIDER_CLIENT_MAP
    /\ \A cls \in _PROVIDER_CLIENT_MAP : auth_tables[cls] = _auth_strategies(cls)

\* C30 witness: after a get_client whose two strategies both raised, with a
\* client of an earlier construction in the registry, the table of the type
\* is the one of type initialization.
C30_Witness ==
    /\ done.op = "get_client"
    /\ done.raised # None
    /\ Len(done.errors) = 2
    /\ Len(_client_registry) = 1
    /\ auth_tables[done.cls] = <<"api_key", "api_key_with_base_url">>


\* --------------------------------------------------------------------------
\* One lock for the whole client-registry map
\* --------------------------------------------------------------------------
\* thread t is between the miss at line 141 and the insert at line 145 of get_client
Constructing(t) ==
    /\ local[t].op = "get_client"
    /\ pc[t] \in {"init", "auth_start", "auth", "store"}

\* C31: in every reachable state at most one thread is between the cache-miss
\* check and the insert of get_client, whatever the keys of the calls, and the
\* thread that is there holds the registry lock: two constructions started by
\* the registry never overlap.
C31_OneConstruction ==
    /\ \A t \in Threads : \A u \in Threads \ {t} : ~(Constructing(t) /\ Constructing(u))
    /\ \A t \in Threads : Constructing(t) => _lock = t

\* one thread constructs under one key while another, whose key is a different
\* one that is also missing, has derived its key and waits for the lock
C31_Witness ==
    \E t \in Threads : \E u \in Threads \ {t} :
        /\ Constructing(t)
        /\ pc[u] = "gc_lock"
        /\ local[u].key # local[t].key
        /\ CacheMiss(local[u].key)
        /\ local[u].provider_name \in _PROVIDER_CLIENT_MAP


\* --------------------------------------------------------------------------
\* Empty handles
\* --------------------------------------------------------------------------
Last(s) == s[Len(s)]

\* the strategy names of a table
TableNames(table) == {table[j] : j \in 1..Len(table)}

\* the last call was a get_client that constructed its client
ConstructedByGetClient ==
    /\ done.op = "get_client"
    /\ done.result # 0
    /\ ~done.hit

\* C32: a strategy that returns an empty value without raising is not a
\* success.  The client instance that a get_client call constructed holds a
\* handle that exists; when the call authenticated, the handle is the value of
\* the last strategy invoked, which returned a non-empty handle, every earlier
\* strategy having failed; when it did not, the handle is one the class cache
\* held.  Every instance's handle was returned by a strategy of its own type.
C32_NoEmptyHandle ==
    /\ ConstructedByGetClient =>
          LET instance == heap[done.result]
          IN /\ instance.client.hid \in 1..handles
             /\ instance.cls = done.provider_name
             /\ IF done.cache_hit
                THEN done.invoked = <<>>
                ELSE /\ done.invoked # <<>>
                     /\ Last(done.invoked) = <<instance.client.by, "ok">>
                     /\ \A j \in 1..(Len(done.invoked) - 1) : done.invoked[j][2] # "ok"
    /\ \A c \in 1..Len(heap) :
          /\ heap[c].client.hid \in 1..handles
          /\ heap[c].client.by \in TableNames(_auth_strategies(heap[c].cls))

\* a get_client call constructed its client after the first strategy returned
\* an empty value and the second one a handle
C32_Witness ==
    /\ ConstructedByGetClient
    /\ done.invoked = << <<"api_key", "empty">>, <<"api_key_with_base_url", "ok">> >>
    /\ heap[done.result].client.by = "api_key_with_base_url"


\* --------------------------------------------------------------------------
\* Explicit client keys and provider types
\* --------------------------------------------------------------------------
\* get_client is the only registry operation called
NextGetClient ==
    \/ \E t \in Threads : GetClientCall(t)
    \/ \E t \in Threads : GetClientCached(t)
    \/ \E t \in Threads : GetClientNotSupported(t)
    \/ \E t \in Threads : GetClientConstruct(t)
    \/ \E t \in Threads : CtorInit(t)
    \/ \E t \in Threads : AuthStart(t)
    \/ \E t \in Threads : AuthInvoke(t)
    \/ \E t \in Threads : AuthExhausted(t)
    \/ \E t \in Threads : CtorDone(t)

SpecGetClient == Init /\ [][NextGetClient]_vars

\* C33: after any sequence of get_client calls, the client that
\* get_client(P, ...) returns is an instance of provider P's client type,
\* whatever the explicit client_key, also one used earlier with another provider.
C33_ReturnsOwnType ==
    (done.op = "get_client" /\ done.result # 0) =>
        heap[done.result].cls = done.provider_name


\* --------------------------------------------------------------------------
\* Handles and the config they were authenticated with
\* --------------------------------------------------------------------------
\* C34: every client instance that get_client constructs for a config holds a
\* handle produced by an auth strategy invoked with that same config; two
\* clients of one provider obtained under different configs never share a
\* handle authenticated with the first config only.
C34_HandleOfOwnConfig ==
    \A c \in 1..Len(heap) : heap[c].client.cfg = heap[c]._config


\* --------------------------------------------------------------------------
\* new_client
\* --------------------------------------------------------------------------
\* C35: a get_client call with new_client true and a client_key returns a
\* client that this very call constructed, never an instance that an earlier
\* call stored in the registry.
C35_NewClientConstructs ==
    (done.op = "get_client" /\ done.new_client /\ done.result # 0) =>
        /\ ~done.hit
        /\ done.result = Len(heap)


\* --------------------------------------------------------------------------
\* The locks are released
\* --------------------------------------------------------------------------
\* get_client calls of the threads that contend for the locks: one that
\* constructs, one for a provider without a client class, one without a key
LocksClientInputs ==
    {<<"openai", None, FALSE>>,
     <<"cohere", None, FALSE>>,
     <<"openai", Some(AstralClientParams(TRUE, None, None)), FALSE>>}

GetClientCallLocks(t) ==
    /\ pc[t] = "idle"
    /\ OpsLeft
    /\ same = None
    /\ \E in \in LocksClientInputs : GetClientEnter(t, in[1], in[2], in[3])

\* both registries under calls that overlap in time
NextLocks ==
    \/ \E t \in Threads : GetClientCallLocks(t)
    \/ \E t \in Threads : GetClientCached(t)
    \/ \E t \in Threads : GetClientNotSupported(t)
    \/ \E t \in Threads : GetClientConstruct(t)
    \/ \E t \in Threads : CtorInit(t)
    \/ \E t \in Threads : AuthStart(t)
    \/ \E t \in Threads : AuthInvoke(t)
    \/ \E t \in Threads : AuthExhausted(t)
    \/ \E t \in Threads : CtorDone(t)
    \/ \E t \in Threads : OpsLeft /\ GetClientByName(t)
    \/ \E t \in Threads : OpsLeft /\ GetAdapterLookup(t)
    \/ \E t \in Threads : GetAdapterConstruct(t)

\* what a thread does once its call has started: it takes the lock when the lock
\* is free, runs the constructor and the strategies, and leaves the with block
Continue(t) ==
    \/ GetClientCached(t)
    \/ GetClientNotSupported(t)
    \/ GetClientConstruct(t)
    \/ CtorInit(t)
    \/ AuthStart(t)
    \/ AuthInvoke(t)
    \/ AuthExhausted(t)
    \/ CtorDone(t)
    \/ GetAdapterConstruct(t)

\* every thread that can go on with its call eventually does: the scheduler
\* runs every runnable thread, and every strategy invocation terminates
SpecLocks == Init /\ [][NextLocks]_vars /\ \A t \in Threads : WF_vars(Continue(t))

\* C36: the registry locks are always released.  A lock is held only by a thread
\* that is inside a construction; after a call that raised, the caller holds no
\* lock; and every call that has started eventually returns or raises, whatever
\* the interleaving of client-registry and adapter-registry operations.
C36_LocksReleased ==
    /\ [](/\ _lock # 0 => Constructing(_lock)
          /\ _adapter_lock # 0 => pc[_adapter_lock] = "ga_new"
          /\ \A t \in Threads : pc[t] = "idle" => (_lock # t /\ _adapter_lock # t))
    /\ \A t \in Threads : (pc[t] # "idle") ~> (pc[t] = "idle")

\* a get_client whose construction raised has returned the lock, while another
\* thread has derived its key and is about to take the lock
C36_Witness ==
    /\ done.op = "get_client"
    /\ done.auth_ran
    /\ done.raised # None
    /\ _lock = 0
    /\ \E u \in Threads : pc[u] = "gc_lock"
    /\ \E u \in Threads : pc[u] = "ga_new"


\* --------------------------------------------------------------------------
\* ProviderClientRegistry of providers/_mappings.py
\* --------------------------------------------------------------------------
\* _PROVIDER_CLIENT_MAP of _mappings.py: the same OpenAI and Anthropic classes
Mappings_PROVIDER_CLIENT_MAP == {"openai", "anthropic"}

\* Lines 166-172: the key, without a variant suffix
Mappings_generate_registry_key(provider_name, config, client_key) ==
    IF Truthy(client_key) THEN client_key[1]
    ELSE IF config # None
         THEN provider_name \o "_" \o ToString(hash(json_dumps(config[1])))
         ELSE provider_name

\* Lines 207-218: the key of the call, None when the call raises ValueError.
MappingsGetClientKey(provider_name, astral_client) ==
    IF astral_client = None
    THEN Some(Mappings_generate_registry_key(provider_name, None, None))
    ELSE IF astral_client[1].new_client
         THEN IF Truthy(astral_client[1].client_key)
              THEN Some(astral_client[1].client_key[1])
              ELSE None
         ELSE Some(Mappings_generate_registry_key(provider_name,
                                                  astral_client[1].client_config,
                                                  astral_client[1].client_key))

\* get_client(provider_name, astral_client) calls on this registry
MappingsClientInputs ==
    {<<"openai", None>>,
     <<"deepseek", None>>,
     <<"openai", Some(AstralClientParams(TRUE, None, None))>>}

\* with cls._lock: of this class, an RLock of its own (line 149)
MappingsCanAcquire(t) == mappings_lock = 0 \/ mappings_lock = t

\* Line 221: if key not in cls._client_registry
MappingsCacheMiss(key) == ~DictHas(mappings_client_registry, key)

\* Lines 207-218: derive the key, or raise ValueError, before the lock is taken.
MappingsGetClientEnter(t, provider_name, astral_client) ==
    LET key == MappingsGetClientKey(provider_name, astral_client)
        frame == [Frame0 EXCEPT
                     !.op = "mappings_get_client",
                     !.provider_name = provider_name,
                     !.new_client = astral_client # None /\ astral_client[1].new_client,
                     !.client_key = IF astral_client = None THEN None
                                    ELSE astral_client[1].client_key,
                     !.config = IF astral_client = None THEN None
                                ELSE astral_client[1].client_config]
    IN /\ calls' = calls + 1
       /\ IF key = None
          THEN Raise(t, frame, ValueError)
          ELSE /\ local' = [local EXCEPT ![t] = [frame EXCEPT !.key = key[1]]]
               /\ pc' = [pc EXCEPT ![t] = "mgc_lock"]
               /\ UNCHANGED done
       /\ UNCHANGED <<clientVars, keyVars, requestVars, mappingsVars, auth_tables, adapterVars>>

\* get_client of this registry called by a thread whatever the other threads are doing
MappingsGetClientCall(t) ==
    /\ pc[t] = "idle"
    /\ calls < MaxOps
    /\ same = None
    /\ \E in \in MappingsClientInputs : MappingsGetClientEnter(t, in[1], in[2])

\* Lines 220-221, 226: the key is in the registry; return the stored client.
MappingsGetClientCached(t) ==
    /\ pc[t] = "mgc_lock"
    /\ MappingsCanAcquire(t)
    /\ ~MappingsCacheMiss(local[t].key)
    /\ Return(t, [local[t] EXCEPT !.hit = TRUE],
              DictGet(mappings_client_registry, local[t].key))
    /\ mappings_lock' = 0
    /\ UNCHANGED <<clientVars, calls, keyVars, requestVars, mappings_client_registry,
                   auth_tables, adapterVars>>

\* Lines 222-224: a miss for a provider without a client class.
MappingsGetClientNotSupported(t) ==
    /\ pc[t] = "mgc_lock"
    /\ MappingsCanAcquire(t)
    /\ MappingsCacheMiss(local[t].key)
    /\ local[t].provider_name \notin Mappings_PROVIDER_CLIENT_MAP
    /\ Raise(t, local[t], ProviderNotSupportedError(local[t].provider_name))
    /\ mappings_lock' = 0
    /\ UNCHANGED <<clientVars, calls, keyVars, requestVars, mappings_client_registry,
                   auth_tables, adapterVars>>

\* Line 225: a miss; call client_class(client_config) with the lock held.
MappingsGetClientConstruct(t) ==
    /\ pc[t] = "mgc_lock"
    /\ MappingsCanAcquire(t)
    /\ MappingsCacheMiss(local[t].key)
    /\ local[t].provider_name \in Mappings_PROVIDER_CLIENT_MAP
    /\ Len(heap) < MaxClients
    /\ local' = [local EXCEPT ![t] = [local[t] EXCEPT !.cls = local[t].provider_name]]
    /\ pc' = [pc EXCEPT ![t] = "init"]
    /\ mappings_lock' = t
    /\ UNCHANGED <<clientVars, done, calls, keyVars, requestVars, mappings_client_registry,
                   auth_tables, adapterVars>>

\* get_client calls of the threads that use both client registries
ProcessClientInputs ==
    {<<"openai", None, FALSE>>,
     <<"cohere", None, FALSE>>}

GetClientCallProcess(t) ==
    /\ pc[t] = "idle"
    /\ calls < MaxOps
    /\ same = None
    /\ \E in \in ProcessClientInputs : GetClientEnter(t, in[1], in[2], in[3])

\* configs of the clients these threads construct directly
ProcessConfigInputs == {None, CfgNoCache}

DirectCallProcess(t) ==
    /\ pc[t] = "idle"
    /\ calls < MaxOps
    /\ Len(heap) < MaxClients
    /\ calls' = calls + 1
    /\ \E cls \in {"openai"}, config \in ProcessConfigInputs :
          local' = [local EXCEPT ![t] = [Frame0 EXCEPT !.op = "direct", !.provider_name = cls,
                                                       !.cls = cls, !.config = config]]
    /\ pc' = [pc EXCEPT ![t] = "init"]
    /\ UNCHANGED <<clientVars, done, keyVars, requestVars, mappingsVars, auth_tables, adapterVars>>

\* threads of one process construct provider clients directly and through the
\* two ProviderClientRegistry classes
NextProcess ==
    \/ \E t \in Threads : GetClientCallProcess(t)
    \/ \E t \in Threads : MappingsGetClientCall(t)
    \/ \E t \in Threads : DirectCallProcess(t)
    \/ \E t \in Threads : GetClientCached(t)
    \/ \E t \in Threads : GetClientNotSupported(t)
    \/ \E t \in Threads : GetClientConstruct(t)
    \/ \E t \in Threads : MappingsGetClientCached(t)
    \/ \E t \in Threads : MappingsGetClientNotSupported(t)
    \/ \E t \in Threads : MappingsGetClientConstruct(t)
    \/ \E t \in Threads : CtorInit(t)
    \/ \E t \in Threads : AuthStart(t)
    \/ \E t \in Threads : AuthInvoke(t)
    \/ \E t \in Threads : AuthExhausted(t)
    \/ \E t \in Threads : CtorDone(t)

SpecProcess == Init /\ [][NextProcess]_vars


\* thread t has missed the class cache with caching enabled and has not yet
\* stored a handle in it (lines 176, 180-183)
Authenticating(t) ==
    /\ pc[t] \in {"auth_start", "auth"}
    /\ local[t].auth_ran
    /\ CacheClientOf(local[t]._config)

\* C37: with caching enabled a provider-client type authenticates at most once
\* per process, also when clients are constructed directly or through the two
\* registry classes at the same time: no two threads are both between the
\* check and the insert on the class cache for one type, and the clients of
\* one type constructed with caching enabled all hold the same handle.
C37_AuthenticatesOnce ==
    /\ \A t \in Threads : \A u \in Threads \ {t} :
          ~(Authenticating(t) /\ Authenticating(u) /\ local[t].cls = local[u].cls)
    /\ \A c \in 1..Len(heap) : \A d \in 1..Len(heap) :
          (/\ heap[c].cls = heap[d].cls
           /\ CacheClientOf(heap[c]._config)
           /\ CacheClientOf(heap[d]._config)) => heap[c].client.hid = heap[d].client.hid


\* --------------------------------------------------------------------------
\* Frame of unregister_client and unregister_adapter
\* --------------------------------------------------------------------------
\* after is before without the entry of key k: no entry of k, every other entry
\* as it was and in the same order, nothing added
RemovedAtMost(before, after, k) ==
    /\ ~DictHas(after, k)
    /\ DictKeys(after) = DictKeys(before) \ {k}
    /\ \A j \in DictKeys(after) : DictGet(after, j) = DictGet(before, j)
    /\ after = SelectSeq(before, LAMBDA e : DictHas(after, e[1]))
    /\ ~DictHas(before, k) => after = before

\* C38: unregister_client and unregister_adapter remove at most the one entry of
\* the derived key and leave every other entry, and the other registry,
\* unchanged; when the key is absent they change nothing; they raise no error;
\* and the key is absent afterwards, so that unregistering again changes nothing.
C38_UnregisterFrame ==
    [][(calls' = calls + 1 /\ pc' = pc)
       => /\ done'.op = "unregister_client"
             => /\ RemovedAtMost(_client_registry, _client_registry', done'.key)
                /\ done'.raised = None
                /\ UNCHANGED <<_adapter_cache, heap, _client_cache>>
          /\ done'.op = "unregister_adapter"
             => /\ RemovedAtMost(_adapter_cache, _adapter_cache', done'.provider_name)
                /\ done'.raised = None
                /\ UNCHANGED <<_client_registry, adapters>>]_vars

\* unregister_client removed the key that get_client had returned a client for
\* while another entry, registered in between, stayed in the registry
C38_Witness ==
    /\ done.op = "unregister_client"
    /\ done.raised = None
    /\ ghost[done.key].last # 0
    /\ ghost[done.key].removed
    /\ ~DictHas(_client_registry, done.key)
    /\ Len(_client_registry) = 1
    /\ calls = 3

====
